---------------------------- MODULE Spec2Model ----------------------------
(***************************************************************************)
(* A state-machine model of dartsort's generic peeling framework           *)
(* (BasePeeler, src/dartsort/peel/base.py).                                *)
(*                                                                         *)
(* Spec     : BasePeeler.peel, its output container, its residual stream,  *)
(*            the worker pool and the coordinating gather loop.            *)
(* SpecFit  : BasePeeler.load_or_fit_and_save_models.                      *)
(*                                                                         *)
(* The spike mixture model (src/dartsort/cluster/gaussian_mixture.py) and  *)
(* the template maker (spike_psvae/snr_templates.py) follow, one           *)
(* specification per operation:                                            *)
(* SpecSplit     : SpikeMixtureModel.split, one thread per unit.           *)
(* SpecEm        : SpikeMixtureModel.em with e_step, m_step and cleanup.   *)
(* SpecReassign  : sparse_reassign.                                        *)
(* SpecBimod     : SpikeMixtureModel.unit_pair_bimodality.                 *)
(* SpecMean      : GaussianUnit.fit, the mean on the full probe.           *)
(* SpecTemplates : get_templates.                                          *)
(* SpecLogLik    : SpikeMixtureModel.log_likelihoods, the direct CSC build.*)
(* SpecDiff      : the likelihood difference handed to qda.                *)
(* SpecRg        : SpikeMixtureModel.rg, the thread-local generators.      *)
(*                                                                         *)
(* Further specifications:                                                 *)
(* SpecDecollider: Decollider.__init__, fit and forward                    *)
(*                 (src/dartsort/transform/decollider.py).                 *)
(* SpecCompose   : ComposeMotionEstimates.disp_at_s                        *)
(*                 (spike_psvae/motion_utils.py).                          *)
(* SpecWorker    : _peeler_process_init, the initializer of peel's pool    *)
(*                 workers, with its arguments bound as the code binds     *)
(*                 them.                                                   *)
(*                                                                         *)
(* peel is one process whose position is pc.  A KeyboardInterrupt or a     *)
(* failing chunk can end it at every point inside its try block, so the    *)
(* gather of one chunk is modelled statement by statement.                 *)
(*                                                                         *)
(* Names the code leaves dangling are bound as section 4.7 of the          *)
(* specification binds them: peel's call self.gather_chunk_result is the   *)
(* method gather_chunk_result_to_h5, and a worker's job yields the result  *)
(* of process_chunk or raises.  Whether the chunk result of the subclass's *)
(* peel_chunk carries a "residual" entry is a property of the subclass     *)
(* (process_chunk never asks for one): resultHasResidual.                  *)
(***************************************************************************)
EXTENDS Integers, Sequences, FiniteSets, TLC

\* ---- bounds of the model
MaxSamples == 3
MaxChunkLen == 2
MaxCalls == 2

VARIABLES
    \* the peeler and its recording (fixed during a peel)
    recLen,             \* recording.get_num_samples()
    chunkLen,           \* self.chunk_length_samples
    spikes,             \* the samples of the recording at which peel_chunk finds a spike
    resultHasResidual,  \* peel_chunk's result has a "residual" entry
    peelingNeedsFit,    \* self.peeling_needs_fit
    pipelineNeedsFit,   \* self.featurization_pipeline.needs_fit
    \* the file system
    h5Exists,           \* output_hdf5_filename exists
    h5Marker,           \* its scalar dataset last_chunk_start
    h5Cols,             \* its per-spike datasets: name -> sequence of rows
    resExists,          \* residual_filename exists
    resData,            \* its content: the chunk starts whose residual it holds
    \* the calling process
    h5Handle,           \* output_h5 of the current call: "none", "open", "closed"
    resHandle,          \* residual_file of the current call
    gradEnabled,        \* torch.is_grad_enabled()
    \* the frame of the current peel call
    pc,
    calls,              \* the calls of peel made so far
    overwrite,          \* argument overwrite
    resReq,             \* argument residual_filename is not None (= save_residual)
    parallel,           \* argument n_jobs > 0
    lastChunkStart,     \* local last_chunk_start
    todo,               \* local chunk_starts_samples after the filter
    gathered,           \* the chunk starts the results iterator has yielded
    nSpikes,            \* local n_spikes
    dsi,                \* position of the loop over self.out_datasets
    hadGrad,            \* local had_grad
    results,            \* the pool's futures: chunk start -> "pending", "ok", "err"
    finishOrder,        \* the chunk starts in the order their jobs finished
    exc,                \* the exception being propagated, "none" if none
    outcome,            \* how the last call ended: "none", "returned", "raised"
    \* history of the calls (read by the properties only)
    gradAtCall,         \* gradEnabled when the current call was made
    created,            \* the current call created the container
    initDone,           \* initialize_files returned in the current call
    rerun,              \* the current call repeats, with overwrite=False and the
                        \* same inputs, a call that returned normally
    hist,               \* life of the container, see HistStates
    \* load_or_fit_and_save_models
    fpc,                \* its position
    saved,              \* save_folder/featurization_pipeline: "none", "fitted", "unfitted"
    fitPeelerKind,      \* fit_peeler of the class: "base", or an override that "fits"
                        \* (clears peeling_needs_fit) or is a "noop"
    fitPipelineKind,    \* fit_featurization_pipeline of the class, likewise
    needAtEntry,        \* needs_fit when the call was made
    needAfterLoad,      \* needs_fit at the second test
    loadCalls,          \* calls of load_models, fit_models, save_models in this call
    fitCalls,
    saveCalls

cfgVars == <<recLen, chunkLen, spikes, resultHasResidual>>
needVars == <<peelingNeedsFit, pipelineNeedsFit>>
fileVars == <<h5Exists, h5Marker, h5Cols, resExists, resData>>
procVars == <<h5Handle, resHandle, gradEnabled>>
argVars == <<calls, overwrite, resReq, parallel>>
frameVars == <<lastChunkStart, todo, gathered, nSpikes, dsi, hadGrad, results,
               finishOrder>>
ghostVars == <<gradAtCall, created, initDone, rerun, hist>>
peelVars == <<cfgVars, fileVars, procVars, pc, argVars, frameVars, exc, outcome, ghostVars>>
fitVars == <<fpc, saved, fitPeelerKind, fitPipelineKind, needAtEntry, needAfterLoad,
             loadCalls, fitCalls, saveCalls>>
\* ---- the spike mixture model (src/dartsort/cluster/gaussian_mixture.py)

\* bounds of the split model: the spikes of the sorting, and k-means' k
SplitSpikes == 4
KmeansK == 2

VARIABLES
    \* SpikeMixtureModel.split: one thread per unit runs kmeans_split_unit
    labels,             \* self.labels: spike -> unit id, -1 if unassigned
    labelsLock,         \* self.labels_lock: the unit whose thread holds it, -1 if free
    spc,                \* unit -> position of its thread
    indicesFull,        \* unit -> local indices_full (= sp.indices)
    splitLabels,        \* unit -> local split_labels: spike -> sub-cluster, then label
    nextLabel,          \* unit -> local next_label
    splitReturned,      \* split has returned (and cleared self.units)
    \* history of the split (read by the properties only)
    mergeLabels,        \* unit -> the labels mini_merge returned
    presentAtWrite      \* unit -> the labels in self.labels when the thread wrote

splitVars == <<labelsLock, spc, indicesFull, splitLabels, nextLabel,
               splitReturned, mergeLabels, presentAtWrite>>

\* bounds of the EM model: the spikes, the cap on n_iter, self.min_count
EmSpikes == 3
MaxEmIter == 2
MinCount == 2

VARIABLES
    \* SpikeMixtureModel.em
    units,              \* self.units: the fitted unit models, each named by the
                        \* label whose spikes it was fitted to
    logLiks,            \* the rows of the last likelihood matrix: the unit each
                        \* row belongs to, -1 for the noise unit
    epc,                \* position of em
    nIter,              \* argument n_iter
    showProgress,       \* argument show_progress
    finalEStep,         \* argument final_e_step
    convergedCount,     \* self.em_converged_prop, in spikes (times n_spikes)
    emRounds,           \* the rounds of the loop begun so far
    reasCount,          \* local reas_count of the round
    emExc,              \* the exception em raised, "none" if none
    emReturn,           \* the rows of the matrix em returned, <<>> for None
    \* history of em (read by the properties only)
    rowOf,              \* spike -> the unit of the row the last reassign chose
    cleanESteps,        \* the E-steps with clean_units=True of this call
    convergedRounds,    \* the rounds that ended with a convergence test true
    leftLoop            \* "no", or how the loop was left: "break", "cap"

emVars == <<units, logLiks, epc, nIter, showProgress, finalEStep, convergedCount,
            emRounds, reasCount, emExc, emReturn, rowOf, cleanESteps,
            convergedRounds, leftLoop>>

\* bounds of the sparse_reassign model: the rows (units) and columns (spikes)
\* of the likelihood matrix
SrUnits == 2
SrSpikes == 2

VARIABLES
    \* sparse_reassign(liks, return_csc)
    srLiks,             \* argument liks: <<row, column>> -> stored value
    srReturnCsc,        \* argument return_csc
    srPc,               \* "call", then how the call ended
    srResult            \* the tuple sparse_reassign returned

reassignVars == <<srLiks, srReturnCsc, srPc, srResult>>

\* bound of the bimodality model: the spikes of a unit
MaxUnitSpikes == 6

\* the least unit size unit_pair_bimodality scores, and qda's min_count
MinUnitSpikes == 5
QdaMinCount == 5

VARIABLES
    \* unit_pair_bimodality(id_a, id_b, ...); the spikes are counted, as the
    \* guards only count them
    bmInA,              \* ina.numel(): the spikes of unit a
    bmInB,              \* inb.numel()
    bmMasked,           \* argument masked
    bmKeptA,            \* ina.numel() after the time mask
    bmKeptB,
    bmFiniteA,          \* the kept spikes of a whose likelihood difference is finite
    bmFiniteB,
    bmMinOverlap,       \* argument min_overlap, in percent
    bmDip,              \* what smoothed_dipscore_at makes of the likelihood values
    bmPc,               \* "call", then how the call ended
    bmScore             \* the score returned

bimodVars == <<bmInA, bmInB, bmMasked, bmKeptA, bmKeptB, bmFiniteA, bmFiniteB,
               bmMinOverlap, bmDip, bmPc, bmScore>>

\* bounds of the unit-mean model: the spikes fitted, the channels of the
\* probe, the largest prior pseudocount
MeanSpikes == 2
MeanChans == 2
MaxPseudo == 1

VARIABLES
    \* GaussianUnit.fit with mean_kind "full" and prior_type "niw" (rank 1)
    fmChannels,         \* features.channels: spike -> its channels on the probe
    fmFeatures,         \* features.features: spike -> its value on those channels
    fmWeights,          \* argument weights: spike -> weight, <<>> for None
    fmPseudo,           \* self.prior_pseudocount
    fmNoiseMean,        \* self.noise.mean_full (the same on every channel)
    fmPc,               \* "call", then "returned"
    fmMean,             \* the buffer "mean": channel -> number
    fmEmp,              \* emp_mean
    fmW0,               \* w0 and w1: channel -> number
    fmW1

meanVars == <<fmChannels, fmFeatures, fmWeights, fmPseudo, fmNoiseMean, fmPc,
              fmMean, fmEmp, fmW0, fmW1>>

\* bound of the template model: the largest sample of a template
MaxAmp == 1

VARIABLES
    \* get_templates for one unit, two samples per channel
    tplByChannel,       \* argument snr_by_channel
    tplThreshold,       \* argument snr_threshold
    tplSqrtN,           \* np.sqrt(len(raw_wfs))
    tplRaw,             \* raw_templates[unit]: channel -> <<sample, sample>>
    tplCleaned,         \* cleaned_templates[unit] as it enters the blend
    tplPc,              \* "call", "blend", "returned" or "NameError"
    tplSnrsByChan,      \* snrs_by_chan[unit], <<>> while the name is unbound
    tplSnrs,            \* snrs[unit]
    tplLerp,            \* lerp: channel -> number
    tplTemplates        \* templates[unit]: channel -> <<number, number>>

templateVars == <<tplByChannel, tplThreshold, tplSqrtN, tplRaw, tplCleaned, tplPc,
                  tplSnrsByChan, tplSnrs, tplLerp, tplTemplates>>

VARIABLES
    \* Decollider (src/dartsort/transform/decollider.py)
    dcEstimator,        \* argument exz_estimator
    dcInference,        \* argument inference_kind
    dcWeighting,        \* argument sample_weighting ("None" for None)
    dcPc,               \* "call", "constructed", "fitted", "returned", or the
                        \* error: "AssertionError" (__init__), "AttributeError",
                        \* "ForwardAssertion" (forward)
    dcNets,             \* the networks initialize_nets has created
    dcUsed              \* the networks forward has called

decolliderVars == <<dcEstimator, dcInference, dcWeighting, dcPc, dcNets, dcUsed>>

\* bound of the motion model: the members of a composition
MaxMembers == 2

VARIABLES
    \* ComposeMotionEstimates.disp_at_s (spike_psvae/motion_utils.py), one time
    cmEstimates,        \* self.motion_estimates: each member's disp_at_s as a
                        \* table depth -> displacement
    cmDepthGiven,       \* FALSE: depth_um is None
    cmDepth,            \* argument depth_um
    cmPc,               \* "call", "loop", "returned"
    cmNext,             \* the member the loop is at
    cmDisp              \* disp

composeVars == <<cmEstimates, cmDepthGiven, cmDepth, cmPc, cmNext, cmDisp>>

\* bounds of the likelihood-matrix model: the spikes (columns) and the most
\* units (rows before the noise row)
LlSpikes == 3
LlUnits == 2

VARIABLES
    \* SpikeMixtureModel.log_likelihoods: the direct CSC build
    llOverlap,          \* unit position -> the spikes subset_neighborhoods finds
                        \* for the unit's channels (0-based spike indices)
    llWithNoise,        \* argument with_noise_unit
    llPc,               \* "call", "insert", "noise", "returned" or
                        \* "UnboundLocalError"
    llJ,                \* the local j (-1: unbound)
    llDone,             \* results of the pool consumed so far
    llIndptr,           \* indptr: 0..n_spikes -> slot
    llWriteOffsets,     \* write_offsets: spike -> slot
    llCscIndices,       \* csc_indices: slot -> row (-1: never written)
    llWrites            \* slot -> how often it was written

loglikVars == <<llOverlap, llWithNoise, llPc, llJ, llDone, llIndptr, llWriteOffsets,
                llCscIndices, llWrites>>

\* bound of the likelihood-difference model: the spikes of a unit pair
DiffSpikes == 2

VARIABLES
    \* the difference unit_pair_bimodality and bimodalities_dense hand to qda
    dfPath,             \* "merge" (sparse matrix) or "split" (dense, mini merge)
    dfLikA,             \* spike of the pair -> its likelihood under unit A
    dfLikB,             \* ... under unit B
    dfHasA,             \* spike -> the likelihood under A is stored (finite)
    dfHasB,
    dfInB,              \* spike -> it is labelled B
    dfPc,               \* "call", then "scored"
    dfDiff,             \* qda's diff after "diff is None" is resolved
    dfFlag              \* qda's in_b

diffVars == <<dfPath, dfLikA, dfLikB, dfHasA, dfHasB, dfInB, dfPc, dfDiff, dfFlag>>

\* bound of the worker-pool model: the workers of the pool
PoolWorkers == 3

VARIABLES
    \* the initializer of peel's pool workers (_peeler_process_init)
    wkSaveResidual,     \* peel's argument save_residual
    wkDeviceCount,      \* torch.cuda.device_count()
    wkQueue,            \* the rank queue of get_pool
    wkPc,               \* worker -> "new", "started", "gradoff", "ready", or the
                        \* exception its initializer raised
    wkGrad,             \* worker -> gradient tracking is enabled in its process
    wkRank,             \* worker -> my_rank (-1: none)
    wkDevice,           \* worker -> device index (-1: none)
    wkEval,             \* worker -> its peeler is in eval mode
    wkCtxResidual       \* worker -> _peeler_process_context.save_residual
                        \* ("unset" without a context)

workerVars == <<wkSaveResidual, wkDeviceCount, wkQueue, wkPc, wkGrad, wkRank, wkDevice,
                wkEval, wkCtxResidual>>

\* bounds of the generator model: the threads that read rg, and how often
\* each of them reads it
RgThreads == 3
MaxRgReads == 2

VARIABLES
    \* SpikeMixtureModel.rg: thread-local generators spawned from self._rg
    rgStorage,          \* thread -> self.storage.rg (-1: no such attribute)
    rgLock,             \* the holder of self.lock (-1: free)
    rgChildren,         \* how many children self._rg has spawned
    rgPc,               \* thread -> "out", "locking", "spawn", "store"
    rgChild,            \* thread -> the child its spawn is creating (-1: none)
    rgReads,            \* thread -> the reads of rg it has completed
    rgGot               \* thread -> the generators its reads returned

rgVars == <<rgStorage, rgLock, rgChildren, rgPc, rgChild, rgReads, rgGot>>
clusterVars == <<labels, splitVars, emVars, reassignVars, bimodVars, meanVars, templateVars, decolliderVars, composeVars, loglikVars, diffVars, workerVars, rgVars>>
vars == <<peelVars, needVars, fitVars, clusterVars>>

\* ---- helpers

Min(a, b) == IF a < b THEN a ELSE b

Range(s) == {s[i] : i \in DOMAIN s}

Last(s) == s[Len(s)]

RECURSIVE SortedSeq(_)
SortedSeq(S) ==
    IF S = {} THEN <<>>
    ELSE LET m == CHOOSE x \in S : \A y \in S : x <= y
         IN <<m>> \o SortedSeq(S \ {m})

\* self.out_datasets of the base class, in order
DsNames == <<"times", "channels">>

EmptyCols == [d \in Range(DsNames) |-> <<>>]

\* a needs_fit that forgets the featurization pipeline
NeedsFit_peelingOnly == peelingNeedsFit

\* BasePeeler.needs_fit
NeedsFit == peelingNeedsFit \/ pipelineNeedsFit

\* range(0, T_samples, self.chunk_length_samples)
DefaultChunkStarts ==
    [i \in 1..((recLen + chunkLen - 1) \div chunkLen) |-> (i - 1) * chunkLen]

\* chunk_result[ds.name] of process_chunk(c): one row per spike of the chunk
\* [c, c + chunk_length_samples); a row is identified by its spike's sample
ChunkRows(c) == SortedSeq({s \in spikes : c <= s /\ s < c + chunkLen})

\* chunk_result["n_spikes"]
ChunkNSpikes(c) == Len(ChunkRows(c))


\* h5_spike_datasets[ds.name].resize(cur_n_spikes + n_new_spikes, axis=0);
\* h5_spike_datasets[ds.name][cur_n_spikes:] = chunk_result[ds.name]
\* (resize cuts the rows after cur, or pads with the fill value 0)
WriteRows(col, cur, rows) ==
    SubSeq(col, 1, Min(cur, Len(col)))
        \o [i \in 1..(cur - Min(cur, Len(col))) |-> 0]
        \o rows

\* a filter that keeps the chunk the marker names
KeepChunk_inclusive(start, last) == start >= last

\* the filter of peel: start > last_chunk_start
KeepChunk(start, last) == start > last

\* chunk_starts_samples = [start for start in chunk_starts_samples if start > last_chunk_start]
ChunksToDo(last) == SelectSeq(DefaultChunkStarts, LAMBDA start : KeepChunk(start, last))

\* results taken as they complete, not in the order of submission
YieldCandidates_asCompleted ==
    {c \in Range(todo) : c \notin Range(gathered) /\ results[c] # "pending"}

\* the pairs zip(chunk_starts_samples, pool.map(...)) can yield next: pool.map
\* yields the results in the order of its input, whatever order they finish in
YieldCandidates ==
    IF Len(gathered) < Len(todo) THEN {todo[Len(gathered) + 1]} ELSE {}

\* the chunk whose result is being gathered
CurChunk == Last(gathered)

\* ---- peel

\* peel(...) is called: the test of needs_fit
PeelCall(ov, res, par) ==
    /\ pc = "idle"
    /\ calls < MaxCalls
    /\ calls' = calls + 1
    /\ overwrite' = ov
    /\ resReq' = res
    /\ parallel' = par
    /\ gradAtCall' = gradEnabled
    /\ created' = FALSE
    /\ initDone' = FALSE
    /\ rerun' = (outcome = "returned" /\ ~ov /\ res = resReq)
    /\ h5Handle' = "none"
    /\ resHandle' = "none"
    /\ lastChunkStart' = 0
    /\ todo' = <<>>
    /\ gathered' = <<>>
    /\ nSpikes' = 0
    /\ dsi' = 0
    /\ hadGrad' = FALSE
    /\ results' = <<>>
    /\ finishOrder' = <<>>
    /\ IF NeedsFit
       THEN /\ exc' = "ValueError"
            /\ outcome' = "raised"
            /\ pc' = "idle"
       ELSE /\ exc' = "none"
            /\ outcome' = "none"
            /\ pc' = "init"
    /\ hist' = IF hist = "interrupted" /\ (ov \/ res # resReq) THEN "other" ELSE hist
    /\ UNCHANGED <<cfgVars, needVars, fileVars, gradEnabled, fitVars, clusterVars>>

\* initialize_files, the container exists and overwrite is set: the file is
\* unlinked, no branch binds output_h5, and the read of last_chunk_start raises
InitOverwrite ==
    /\ pc = "init"
    /\ h5Exists /\ overwrite
    /\ h5Exists' = FALSE
    /\ h5Marker' = 0
    /\ h5Cols' = EmptyCols
    /\ exc' = "UnboundLocalError"
    /\ outcome' = "raised"
    /\ pc' = "idle"
    /\ hist' = "none"
    /\ UNCHANGED <<cfgVars, needVars, resExists, resData, procVars, argVars, frameVars,
                   gradAtCall, created, initDone, rerun, fitVars, clusterVars>>

\* initialize_files otherwise: the container is opened ("r+"), or created
\* ("w") with last_chunk_start 0 and empty per-spike datasets; then the
\* residual file is opened
InitOpen ==
    /\ pc = "init"
    /\ ~(h5Exists /\ overwrite)
    /\ LET last == IF h5Exists THEN h5Marker ELSE 0
       IN /\ lastChunkStart' = last
          /\ h5Exists' = TRUE
          /\ h5Marker' = last
          /\ h5Cols' = IF h5Exists THEN h5Cols ELSE EmptyCols
          /\ h5Handle' = "open"
          /\ created' = ~h5Exists
          /\ IF resReq /\ last > 0 /\ ~resExists
             THEN \* assert Path(residual_filename).exists()
                  /\ exc' = "AssertionError"
                  /\ outcome' = "raised"
                  /\ pc' = "idle"
                  /\ initDone' = FALSE
                  /\ hist' = IF h5Exists THEN "other" ELSE "first"
                  /\ UNCHANGED <<resExists, resData, resHandle>>
             ELSE /\ resHandle' = IF resReq THEN "open" ELSE "none"
                  /\ resExists' = (resExists \/ resReq)
                  /\ resData' = IF resReq /\ ~(last > 0) THEN <<>> ELSE resData
                  /\ initDone' = TRUE
                  /\ pc' = "setup"
                  /\ hist' = IF ~h5Exists THEN "first"
                             ELSE IF hist = "interrupted" THEN "resuming"
                             ELSE "other"
                  /\ UNCHANGED <<exc, outcome>>
    /\ UNCHANGED <<cfgVars, needVars, gradEnabled, argVars, todo, gathered, nSpikes,
                   dsi, hadGrad, results, finishOrder, gradAtCall, rerun, fitVars, clusterVars>>

\* the process-wide gradient mode once the pool is set up: with n_jobs = 0
\* _peeler_process_init runs in the calling process, torch.set_grad_enabled(False)
GradAfterPoolInit == IF parallel THEN gradEnabled ELSE FALSE

\* peel from the chunk filter to the start of the loop: the chunks to do, the
\* early close, had_grad, the pool and its map
PeelSetup ==
    /\ pc = "setup"
    /\ todo' = ChunksToDo(lastChunkStart)
    /\ h5Handle' = IF ChunksToDo(lastChunkStart) = <<>> THEN "closed" ELSE h5Handle
    /\ hadGrad' = gradEnabled
    /\ gradEnabled' = GradAfterPoolInit
    /\ results' = [c \in Range(ChunksToDo(lastChunkStart)) |-> "pending"]
    /\ gathered' = <<>>
    /\ nSpikes' = 0
    /\ pc' = "loop"
    /\ UNCHANGED <<cfgVars, needVars, fileVars, resHandle, argVars, lastChunkStart, dsi,
                   finishOrder, exc, outcome, ghostVars, fitVars, clusterVars>>

\* a worker (the calling process itself when n_jobs = 0, and then lazily, in
\* order) finishes _peeler_process_job(c): a result, or an exception
WorkerFinish(c, r) ==
    /\ pc \in {"loop", "residual", "rows"}
    /\ c \in DOMAIN results
    /\ results[c] = "pending"
    /\ parallel \/ (pc = "loop" /\ c \in YieldCandidates)
    /\ results' = [results EXCEPT ![c] = r]
    /\ finishOrder' = Append(finishOrder, c)
    /\ UNCHANGED <<cfgVars, needVars, fileVars, procVars, pc, argVars, lastChunkStart,
                   todo, gathered, nSpikes, dsi, hadGrad, exc, outcome, ghostVars,
                   fitVars, clusterVars>>

\* the loop takes the next (chunk_start_samples, result) and gather begins:
\* output_h5["last_chunk_start"][()] = chunk_start_samples
GatherMarker(c) ==
    /\ pc = "loop"
    /\ c \in YieldCandidates
    /\ results[c] = "ok"
    /\ gathered' = Append(gathered, c)
    /\ h5Marker' = c
    /\ pc' = "residual"
    /\ UNCHANGED <<cfgVars, needVars, h5Exists, h5Cols, resExists, resData, procVars,
                   argVars, lastChunkStart, todo, nSpikes, dsi, hadGrad, results,
                   finishOrder, exc, outcome, ghostVars, fitVars, clusterVars>>

\* the next result is an exception of its worker: it is raised in the loop
GatherRaises(c) ==
    /\ pc = "loop"
    /\ c \in YieldCandidates
    /\ results[c] = "err"
    /\ exc' = "ChunkError"
    /\ pc' = "finally"
    /\ hist' = "other"
    /\ UNCHANGED <<cfgVars, needVars, fileVars, procVars, argVars, frameVars, outcome,
                   gradAtCall, created, initDone, rerun, fitVars, clusterVars>>

\* gather, continued: the residual is written if a residual file is open, and
\* a chunk without spikes ends the gather (return 0)
GatherResidual ==
    /\ pc = "residual"
    /\ IF resHandle = "open" /\ ~resultHasResidual
       THEN \* chunk_result["residual"]: KeyError
            /\ exc' = "KeyError"
            /\ pc' = "finally"
            /\ hist' = "other"
            /\ UNCHANGED <<resData, dsi>>
       ELSE /\ resData' = IF resHandle = "open" THEN Append(resData, CurChunk)
                          ELSE resData
            /\ IF ChunkNSpikes(CurChunk) = 0
               THEN pc' = "loop" /\ dsi' = 0
               ELSE pc' = "rows" /\ dsi' = 1
            /\ UNCHANGED <<exc, hist>>
    /\ UNCHANGED <<cfgVars, needVars, h5Exists, h5Marker, h5Cols, resExists, procVars,
                   argVars, lastChunkStart, todo, gathered, nSpikes, hadGrad, results,
                   finishOrder, outcome, gradAtCall, created, initDone, rerun, fitVars, clusterVars>>

\* gather, continued: one turn of the loop over self.out_datasets; after the
\* last dataset gather returns n_new_spikes and peel adds it to n_spikes
GatherRows ==
    /\ pc = "rows"
    /\ h5Cols' = [h5Cols EXCEPT ![DsNames[dsi]] =
                     WriteRows(@, nSpikes, ChunkRows(CurChunk))]
    /\ IF dsi < Len(DsNames)
       THEN /\ dsi' = dsi + 1
            /\ UNCHANGED <<pc, nSpikes>>
       ELSE /\ dsi' = 0
            /\ nSpikes' = nSpikes + ChunkNSpikes(CurChunk)
            /\ pc' = "loop"
    /\ UNCHANGED <<cfgVars, needVars, h5Exists, h5Marker, resExists, resData, procVars,
                   argVars, lastChunkStart, todo, gathered, hadGrad, results,
                   finishOrder, exc, outcome, ghostVars, fitVars, clusterVars>>

\* the results are exhausted: the loop and the with block end
LoopEnd ==
    /\ pc = "loop"
    /\ Len(gathered) = Len(todo)
    /\ pc' = "finally"
    /\ UNCHANGED <<cfgVars, needVars, fileVars, procVars, argVars, frameVars, exc,
                   outcome, ghostVars, fitVars, clusterVars>>

\* the run is interrupted (KeyboardInterrupt) inside the try block, between
\* two gathers or in the middle of one
Interrupt ==
    /\ pc \in {"loop", "residual", "rows"}
    /\ exc' = "KeyboardInterrupt"
    /\ pc' = "finally"
    /\ hist' = IF pc = "loop" /\ hist = "first" THEN "interrupted" ELSE "other"
    /\ UNCHANGED <<cfgVars, needVars, fileVars, procVars, argVars, frameVars, outcome,
                   gradAtCall, created, initDone, rerun, fitVars, clusterVars>>

\* a finally block that leaves the gradient mode as the pool left it
RestoredGrad_notRestored == gradEnabled

\* torch.set_grad_enabled(had_grad) of the finally block
RestoredGrad == hadGrad

\* residual_file.close() of the finally block, under if save_residual
ClosedResidual == IF resReq THEN "closed" ELSE resHandle

\* what peel does with the exception in flight: try/finally has no except
\* clause, the exception leaves peel
Propagated == IF exc = "none" THEN "returned" ELSE "raised"

\* the finally block, then return output_hdf5_filename or the exception
Finally ==
    /\ pc = "finally"
    /\ h5Handle' = "closed"
    /\ resHandle' = ClosedResidual
    /\ gradEnabled' = RestoredGrad
    /\ outcome' = Propagated
    /\ pc' = "idle"
    /\ hist' = IF exc # "none" THEN hist
               ELSE IF hist = "first" THEN "complete"
               ELSE IF hist = "resuming" THEN "resumed"
               ELSE "other"
    /\ lastChunkStart' = 0
    /\ todo' = <<>>
    /\ nSpikes' = 0
    /\ dsi' = 0
    /\ hadGrad' = FALSE
    /\ results' = <<>>
    /\ finishOrder' = <<>>
    /\ UNCHANGED <<cfgVars, needVars, fileVars, argVars, gathered, exc, gradAtCall,
                   created, initDone, rerun, fitVars, clusterVars>>

\* ---- the specification of peel

HistStates == {"none", "first", "interrupted", "complete", "resuming", "resumed", "other"}

SplitIdle ==
    /\ labelsLock = -1
    /\ spc = <<>>
    /\ indicesFull = <<>>
    /\ splitLabels = <<>>
    /\ nextLabel = <<>>
    /\ splitReturned = FALSE
    /\ mergeLabels = <<>>
    /\ presentAtWrite = <<>>

EmIdle ==
    /\ units = <<>>
    /\ logLiks = <<>>
    /\ epc = "idle"
    /\ nIter = 0
    /\ showProgress = FALSE
    /\ finalEStep = FALSE
    /\ convergedCount = 0
    /\ emRounds = 0
    /\ reasCount = 0
    /\ emExc = "none"
    /\ emReturn = <<>>
    /\ rowOf = <<>>
    /\ cleanESteps = 0
    /\ convergedRounds = 0
    /\ leftLoop = "no"

ReassignIdle ==
    /\ srLiks = <<>>
    /\ srReturnCsc = FALSE
    /\ srPc = "idle"
    /\ srResult = <<>>

BimodIdle ==
    /\ bmInA = 0
    /\ bmInB = 0
    /\ bmMasked = FALSE
    /\ bmKeptA = 0
    /\ bmKeptB = 0
    /\ bmFiniteA = 0
    /\ bmFiniteB = 0
    /\ bmMinOverlap = 0
    /\ bmDip = 0
    /\ bmPc = "idle"
    /\ bmScore = [inf |-> FALSE, val |-> 0]

MeanIdle ==
    /\ fmChannels = <<>>
    /\ fmFeatures = <<>>
    /\ fmWeights = <<>>
    /\ fmPseudo = 0
    /\ fmNoiseMean = 0
    /\ fmPc = "idle"
    /\ fmMean = <<>>
    /\ fmEmp = <<>>
    /\ fmW0 = <<>>
    /\ fmW1 = <<>>

TemplatesIdle ==
    /\ tplByChannel = FALSE
    /\ tplThreshold = 1
    /\ tplSqrtN = 1
    /\ tplRaw = <<>>
    /\ tplCleaned = <<>>
    /\ tplPc = "idle"
    /\ tplSnrsByChan = <<>>
    /\ tplSnrs = 0
    /\ tplLerp = <<>>
    /\ tplTemplates = <<>>

DecolliderIdle ==
    /\ dcEstimator = "n3n"
    /\ dcInference = "raw"
    /\ dcWeighting = "None"
    /\ dcPc = "idle"
    /\ dcNets = {}
    /\ dcUsed = {}

ComposeIdle ==
    /\ cmEstimates = <<>>
    /\ cmDepthGiven = FALSE
    /\ cmDepth = 0
    /\ cmPc = "idle"
    /\ cmNext = 0
    /\ cmDisp = 0

LogLikIdle ==
    /\ llOverlap = <<>>
    /\ llWithNoise = FALSE
    /\ llPc = "idle"
    /\ llJ = -1
    /\ llDone = 0
    /\ llIndptr = <<>>
    /\ llWriteOffsets = <<>>
    /\ llCscIndices = <<>>
    /\ llWrites = <<>>

DiffIdle ==
    /\ dfPath = "merge"
    /\ dfLikA = <<>>
    /\ dfLikB = <<>>
    /\ dfHasA = <<>>
    /\ dfHasB = <<>>
    /\ dfInB = <<>>
    /\ dfPc = "idle"
    /\ dfDiff = <<>>
    /\ dfFlag = <<>>

WorkerIdle ==
    /\ wkSaveResidual = FALSE
    /\ wkDeviceCount = 1
    /\ wkQueue = <<>>
    /\ wkPc = <<>>
    /\ wkGrad = <<>>
    /\ wkRank = <<>>
    /\ wkDevice = <<>>
    /\ wkEval = <<>>
    /\ wkCtxResidual = <<>>

RgIdle ==
    /\ rgStorage = <<>>
    /\ rgLock = -1
    /\ rgChildren = 0
    /\ rgPc = <<>>
    /\ rgChild = <<>>
    /\ rgReads = <<>>
    /\ rgGot = <<>>

ClusterIdle == labels = <<>> /\ SplitIdle /\ EmIdle /\ ReassignIdle /\ BimodIdle /\ MeanIdle /\ TemplatesIdle /\ DecolliderIdle /\ ComposeIdle /\ LogLikIdle /\ DiffIdle /\ WorkerIdle /\ RgIdle

FitIdle ==
    /\ fpc = "idle"
    /\ saved = "none"
    /\ fitPeelerKind = "fits"
    /\ fitPipelineKind = "fits"
    /\ needAtEntry = FALSE
    /\ needAfterLoad = FALSE
    /\ loadCalls = 0
    /\ fitCalls = 0
    /\ saveCalls = 0

PeelIdle ==
    /\ h5Exists = FALSE
    /\ h5Marker = 0
    /\ h5Cols = EmptyCols
    /\ resExists = FALSE
    /\ resData = <<>>
    /\ h5Handle = "none"
    /\ resHandle = "none"
    /\ pc = "idle"
    /\ calls = 0
    /\ overwrite = FALSE
    /\ resReq = FALSE
    /\ parallel = FALSE
    /\ lastChunkStart = 0
    /\ todo = <<>>
    /\ gathered = <<>>
    /\ nSpikes = 0
    /\ dsi = 0
    /\ hadGrad = FALSE
    /\ results = <<>>
    /\ finishOrder = <<>>
    /\ exc = "none"
    /\ outcome = "none"
    /\ created = FALSE
    /\ initDone = FALSE
    /\ rerun = FALSE
    /\ hist = "none"

Init ==
    /\ recLen \in 1..MaxSamples
    /\ chunkLen \in 1..MaxChunkLen
    /\ spikes \in SUBSET (0..(recLen - 1))
    /\ resultHasResidual \in BOOLEAN
    /\ peelingNeedsFit \in BOOLEAN
    /\ pipelineNeedsFit \in BOOLEAN
    /\ gradEnabled \in BOOLEAN
    /\ gradAtCall = gradEnabled
    /\ PeelIdle
    /\ FitIdle
    /\ ClusterIdle

Next ==
    \/ \E ov \in BOOLEAN, res \in BOOLEAN, par \in BOOLEAN : PeelCall(ov, res, par)
    \/ InitOverwrite
    \/ InitOpen
    \/ PeelSetup
    \/ \E c \in DOMAIN results, r \in {"ok", "err"} : WorkerFinish(c, r)
    \/ \E c \in YieldCandidates : GatherMarker(c)
    \/ \E c \in YieldCandidates : GatherRaises(c)
    \/ GatherResidual
    \/ GatherRows
    \/ LoopEnd
    \/ Interrupt
    \/ Finally

Spec == Init /\ [][Next]_vars

\* ---- what an uninterrupted peel leaves in a new container

\* the gather loop of peel over the chunks from position i on, with n_spikes
\* = n: per dataset the rows of gather_chunk_result_to_h5 (a chunk without
\* spikes returns before the datasets are resized)
RECURSIVE GatherAll(_, _, _, _)
GatherAll(chunks, i, col, n) ==
    IF i > Len(chunks) THEN col
    ELSE IF ChunkNSpikes(chunks[i]) = 0 THEN GatherAll(chunks, i + 1, col, n)
    ELSE GatherAll(chunks, i + 1, WriteRows(col, n, ChunkRows(chunks[i])),
                   n + ChunkNSpikes(chunks[i]))

\* the per-spike datasets after one uninterrupted peel on a new container
UninterruptedCols == [d \in Range(DsNames) |-> GatherAll(ChunksToDo(0), 1, <<>>, 0)]

\* last_chunk_start after one uninterrupted peel on a new container
UninterruptedMarker ==
    IF ChunksToDo(0) = <<>> THEN 0 ELSE Last(ChunksToDo(0))

\* ---- the claims about peel

InTry == pc \in {"loop", "residual", "rows"}

HasRows(col, rows) == \A i \in DOMAIN rows : rows[i] \in Range(col)

\* all of chunk c's data is in the files: its rows in every per-spike
\* dataset, and its residual when a residual file is written
ChunkInFiles(c) ==
    /\ \A d \in Range(DsNames) : HasRows(h5Cols[d], ChunkRows(c))
    /\ resHandle = "open" => c \in Range(resData)

\* C1: at every point where a running peel can be interrupted, a marker
\* last_chunk_start that names a chunk gathered by this run names a chunk
\* whose rows (and residual, if one is saved) are already in the files.
C1_MarkerNamesAppendedChunk ==
    (InTry /\ h5Marker \in Range(gathered)) => ChunkInFiles(h5Marker)

\* C2: a peel on a new container that is interrupted between two gathers and
\* then resumed with overwrite=False on the same inputs ends with the marker
\* and the per-spike datasets of one uninterrupted run.
C2_ResumeEqualsUninterrupted ==
    hist = "resumed" => (h5Marker = UninterruptedMarker /\ h5Cols = UninterruptedCols)

\* C3: a peel that created its container and returned has gathered every
\* default chunk start 0, L, 2L, ... below the recording length, once each.
C3_NewContainerGathersEveryChunk ==
    (pc = "idle" /\ outcome = "returned" /\ created) => gathered = DefaultChunkStarts

C5_OverwriteRecreates ==
    [][(pc = "init" /\ overwrite /\ h5Exists) =>
          /\ h5Exists'
          /\ h5Marker' = 0
          /\ h5Cols' = EmptyCols
          /\ lastChunkStart' = 0
          /\ pc' = "setup"]_vars

\* C6: as long as the peeler needs fitting, every call of peel has raised
\* ValueError, and neither the container nor the residual file was created,
\* opened or written.
C6_UnfittedPeelRaisesFirst ==
    (peelingNeedsFit \/ pipelineNeedsFit) =>
        /\ pc = "idle"
        /\ ~h5Exists /\ ~resExists
        /\ h5Marker = 0 /\ h5Cols = EmptyCols /\ resData = <<>>
        /\ h5Handle = "none" /\ resHandle = "none"
        /\ calls > 0 => (outcome = "raised" /\ exc = "ValueError")

C6_Witness ==
    /\ ~peelingNeedsFit /\ pipelineNeedsFit
    /\ calls > 0 /\ outcome = "raised"

\* C7: when peel has ended after initialize_files returned, the container
\* handle is closed, the residual handle is closed if one was opened, the
\* gradient mode is the one of before the call, and the call raised exactly
\* when an exception occurred.
C7_ExitReleases ==
    (pc = "idle" /\ initDone) =>
        /\ h5Handle = "closed"
        /\ resHandle = IF resReq THEN "closed" ELSE "none"
        /\ gradEnabled = gradAtCall
        /\ outcome = IF exc = "none" THEN "returned" ELSE "raised"

C7_Witness ==
    /\ pc = "idle" /\ initDone
    /\ exc = "ChunkError" /\ outcome = "raised"
    /\ resReq /\ ~parallel /\ gradAtCall
    /\ gathered # <<>>

\* C8: the chunks gathered so far are, in order, the first of the submitted
\* chunk starts, whatever order the workers finish in; and a step of a worker
\* changes neither the container nor the residual file.
C8_GatherInSubmissionOrder ==
    /\ []((InTry \/ pc = "finally") => gathered = SubSeq(todo, 1, Len(gathered)))
    /\ [][(\E c \in DOMAIN results, r \in {"ok", "err"} : WorkerFinish(c, r))
             => UNCHANGED fileVars]_vars

\* the second chunk's job finished before the first's, and both chunks were
\* gathered
C8_Witness ==
    /\ pc = "finally" /\ parallel /\ exc = "none"
    /\ Len(todo) >= 2
    /\ gathered = todo
    /\ SubSeq(finishOrder, 1, 2) = <<todo[2], todo[1]>>

\* the chunk starts whose rows are in dataset col, in order of first row
RECURSIVE ChunksOfRows(_)
ChunksOfRows(col) ==
    IF col = <<>> THEN <<>>
    ELSE LET rest == ChunksOfRows(SubSeq(col, 1, Len(col) - 1))
             c == (Last(col) \div chunkLen) * chunkLen
         IN IF c \in Range(rest) THEN rest ELSE Append(rest, c)

\* C9: with a residual file requested in every run of a container's life,
\* between two gathers and after peel, the residual stream holds the
\* residuals of exactly the chunks whose spikes are in the container, each
\* once and in chunk order.
C9_ResidualInStepWithContainer ==
    (/\ resReq
     /\ hist \in {"first", "interrupted", "resuming", "resumed", "complete"}
     /\ initDone
     /\ pc \in {"loop", "idle"})
        => /\ \A d \in Range(DsNames) :
                 SelectSeq(resData, LAMBDA c : ChunkNSpikes(c) > 0) = ChunksOfRows(h5Cols[d])
           /\ \A i, j \in DOMAIN resData : i < j => resData[i] < resData[j]

\* ---- load_or_fit_and_save_models

FitKinds == {"base", "fits", "noop"}

\* load_or_fit_and_save_models(save_folder) is called
FitCall ==
    /\ fpc \in {"idle", "returned", "raised"}
    /\ needAtEntry' = (peelingNeedsFit \/ pipelineNeedsFit)
    /\ needAfterLoad' = FALSE
    /\ loadCalls' = 0
    /\ fitCalls' = 0
    /\ saveCalls' = 0
    /\ fpc' = "test1"
    /\ UNCHANGED <<peelVars, clusterVars, needVars, saved, fitPeelerKind, fitPipelineKind>>

\* if self.needs_fit: self.load_models(save_folder); torch.load raises when
\* the file is missing, else the loaded pipeline replaces the peeler's
LoadModels ==
    /\ fpc = "test1"
    /\ NeedsFit
    /\ loadCalls' = loadCalls + 1
    /\ IF saved = "none"
       THEN fpc' = "raised" /\ UNCHANGED pipelineNeedsFit
       ELSE fpc' = "test2" /\ pipelineNeedsFit' = (saved = "unfitted")
    /\ UNCHANGED <<peelVars, clusterVars, peelingNeedsFit, saved, fitPeelerKind, fitPipelineKind,
                   needAtEntry, needAfterLoad, fitCalls, saveCalls>>

\* the first test fails: nothing is loaded
SkipLoad ==
    /\ fpc = "test1"
    /\ ~NeedsFit
    /\ fpc' = "test2"
    /\ UNCHANGED <<peelVars, clusterVars, needVars, saved, fitPeelerKind, fitPipelineKind,
                   needAtEntry, needAfterLoad, loadCalls, fitCalls, saveCalls>>

\* a second test that is not made: fit_models always runs
SecondTest_alwaysFits ==
    /\ fpc = "test2"
    /\ needAfterLoad' = (peelingNeedsFit \/ pipelineNeedsFit)
    /\ fpc' = "fit_peeler"
    /\ fitCalls' = fitCalls + 1
    /\ UNCHANGED <<peelVars, clusterVars, needVars, saved, fitPeelerKind, fitPipelineKind,
                   needAtEntry, loadCalls, saveCalls>>

\* the second if self.needs_fit: fit_models is entered, or skipped with save_models
SecondTest ==
    /\ fpc = "test2"
    /\ needAfterLoad' = (peelingNeedsFit \/ pipelineNeedsFit)
    /\ IF NeedsFit
       THEN fpc' = "fit_peeler" /\ fitCalls' = fitCalls + 1
       ELSE fpc' = "assert" /\ UNCHANGED fitCalls
    /\ UNCHANGED <<peelVars, clusterVars, needVars, saved, fitPeelerKind, fitPipelineKind,
                   needAtEntry, loadCalls, saveCalls>>

\* fit_models: if self.peeling_needs_fit: self.fit_peeler(); the base
\* fit_peeler asserts not self.peeling_needs_fit
FitPeeler ==
    /\ fpc = "fit_peeler"
    /\ IF peelingNeedsFit /\ fitPeelerKind = "base"
       THEN fpc' = "raised" /\ UNCHANGED peelingNeedsFit
       ELSE /\ fpc' = "fit_pipeline"
            /\ peelingNeedsFit' = (peelingNeedsFit /\ fitPeelerKind # "fits")
    /\ UNCHANGED <<peelVars, clusterVars, pipelineNeedsFit, saved, fitPeelerKind, fitPipelineKind,
                   needAtEntry, needAfterLoad, loadCalls, fitCalls, saveCalls>>

\* fit_models: self.fit_featurization_pipeline() (the base raises
\* NotImplementedError), then assert not self.needs_fit
FitPipeline ==
    /\ fpc = "fit_pipeline"
    /\ IF fitPipelineKind = "base"
       THEN fpc' = "raised" /\ UNCHANGED pipelineNeedsFit
       ELSE /\ pipelineNeedsFit' = (pipelineNeedsFit /\ fitPipelineKind # "fits")
            /\ fpc' = IF peelingNeedsFit \/ (pipelineNeedsFit /\ fitPipelineKind # "fits")
                      THEN "raised" ELSE "save"
    /\ UNCHANGED <<peelVars, clusterVars, peelingNeedsFit, saved, fitPeelerKind, fitPipelineKind,
                   needAtEntry, needAfterLoad, loadCalls, fitCalls, saveCalls>>

\* save_models: torch.save(self.featurization_pipeline, ...)
SaveModels ==
    /\ fpc = "save"
    /\ saved' = IF pipelineNeedsFit THEN "unfitted" ELSE "fitted"
    /\ saveCalls' = saveCalls + 1
    /\ fpc' = "assert"
    /\ UNCHANGED <<peelVars, clusterVars, needVars, fitPeelerKind, fitPipelineKind, needAtEntry,
                   needAfterLoad, loadCalls, fitCalls>>

\* assert not self.needs_fit, and the return
FinalAssert ==
    /\ fpc = "assert"
    /\ fpc' = IF NeedsFit THEN "raised" ELSE "returned"
    /\ UNCHANGED <<peelVars, clusterVars, needVars, saved, fitPeelerKind, fitPipelineKind,
                   needAtEntry, needAfterLoad, loadCalls, fitCalls, saveCalls>>

InitFit ==
    /\ recLen = 1
    /\ chunkLen = 1
    /\ spikes = {}
    /\ resultHasResidual = FALSE
    /\ gradEnabled = TRUE
    /\ gradAtCall = TRUE
    /\ PeelIdle
    /\ peelingNeedsFit \in BOOLEAN
    /\ pipelineNeedsFit \in BOOLEAN
    /\ fpc = "idle"
    /\ saved \in {"none", "fitted", "unfitted"}
    /\ fitPeelerKind \in FitKinds
    /\ fitPipelineKind \in FitKinds
    /\ needAtEntry = FALSE
    /\ needAfterLoad = FALSE
    /\ loadCalls = 0
    /\ fitCalls = 0
    /\ saveCalls = 0
    /\ ClusterIdle

NextFit ==
    \/ FitCall
    \/ LoadModels
    \/ SkipLoad
    \/ SecondTest
    \/ FitPeeler
    \/ FitPipeline
    \/ SaveModels
    \/ FinalAssert

SpecFit == InitFit /\ [][NextFit]_vars

\* ---- the claim about load_or_fit_and_save_models

\* C10: load_or_fit_and_save_models returns only with needs_fit false; it
\* calls load_models only if fitting was needed at entry, fit_models (once)
\* only if fitting is still needed at the second test, save_models only after
\* fit_models, and neither when the second test found the peeler fitted.
C10_FitPostcondition ==
    /\ fpc = "returned" => ~(peelingNeedsFit \/ pipelineNeedsFit)
    /\ loadCalls = (IF needAtEntry /\ fpc # "test1" THEN 1 ELSE 0)
    /\ fitCalls > 0 => (needAfterLoad /\ fitCalls = 1)
    /\ saveCalls > 0 => (fitCalls = 1 /\ saveCalls = 1)
    /\ (fpc \in {"assert", "returned"} /\ ~needAfterLoad) => (fitCalls = 0 /\ saveCalls = 0)
    /\ (fpc = "returned" /\ needAfterLoad) => (fitCalls = 1 /\ saveCalls = 1)

\* a load that yields an unfitted pipeline, then a fit and a save
C10_Witness ==
    /\ fpc = "returned"
    /\ loadCalls = 1 /\ fitCalls = 1 /\ saveCalls = 1
    /\ saved = "fitted"

\* ==== SpikeMixtureModel.split and kmeans_split_unit

\* the peeler's variables and those of load_or_fit_and_save_models, at rest
PeelerAtRest ==
    /\ recLen = 1
    /\ chunkLen = 1
    /\ spikes = {}
    /\ resultHasResidual = FALSE
    /\ peelingNeedsFit = FALSE
    /\ pipelineNeedsFit = FALSE
    /\ gradEnabled = TRUE
    /\ gradAtCall = TRUE
    /\ PeelIdle
    /\ FitIdle

\* a unit splits only if it has two spikes, so this many units can split
SplitUnits == SplitSpikes \div 2

UnitIds == 0..(SplitUnits - 1)

\* self.unit_ids(): the non-negative labels in use
unit_ids(lab) == {lab[i] : i \in DOMAIN lab} \ {-1}

SpikeIds == 1..SplitSpikes

Max(S) == CHOOSE x \in S : \A y \in S : y <= x

\* split_labels.unique().numel() <= 1
SingleCluster(km) == Cardinality({km[i] : i \in DOMAIN km}) <= 1

\* the labels mini_merge can return for the spikes idx: agglomerate's merged
\* ids of the at most kmeans_k sub-units, and -1 where every sub-unit's
\* likelihood is -inf
MiniMergeLabels(idx) == [idx -> -1..(KmeansK - 1)]

\* with self.labels_lock: the lock can be taken
LockFree_unguarded == TRUE

LockFree == labelsLock = -1

\* split_labels[split_labels >= 1] += next_label - 1
\* split_labels[split_labels == 0] = unit_id
Renumber(sl, next, unit_id) ==
    LET shifted == [i \in DOMAIN sl |-> IF sl[i] >= 1 THEN sl[i] + next - 1 ELSE sl[i]]
    IN [i \in DOMAIN sl |-> IF shifted[i] = 0 THEN unit_id ELSE shifted[i]]

restOfSplit == <<peelVars, needVars, fitVars, emVars, reassignVars, bimodVars, meanVars, templateVars, decolliderVars, composeVars, loglikVars, diffVars, workerVars, rgVars>>

\* kmeans_split_unit up to the lock: the unit's spikes, k-means, the early
\* return on a single cluster, the mini merge
SplitCluster(j) ==
    /\ spc[j] = "start"
    /\ LET idx == {i \in SpikeIds : labels[i] = j}
       IN /\ indicesFull' = [indicesFull EXCEPT ![j] = idx]
          /\ \E km \in [idx -> 0..(KmeansK - 1)] :
                IF SingleCluster(km)
                THEN /\ spc' = [spc EXCEPT ![j] = "returned"]
                     /\ UNCHANGED <<splitLabels, mergeLabels>>
                ELSE \E mm \in MiniMergeLabels(idx) :
                        /\ spc' = [spc EXCEPT ![j] = "merged"]
                        /\ splitLabels' = [splitLabels EXCEPT ![j] = mm]
                        /\ mergeLabels' = [mergeLabels EXCEPT ![j] = mm]
    /\ UNCHANGED <<labels, labelsLock, nextLabel, splitReturned, presentAtWrite, restOfSplit>>

\* with self.labels_lock: entry
SplitAcquire(j) ==
    /\ spc[j] = "merged"
    /\ LockFree
    /\ labelsLock' = j
    /\ spc' = [spc EXCEPT ![j] = "locked"]
    /\ UNCHANGED <<labels, indicesFull, splitLabels, nextLabel, splitReturned,
                   mergeLabels, presentAtWrite, restOfSplit>>

\* next_label = self.labels.max() + 1
SplitReadMax(j) ==
    /\ spc[j] = "locked"
    /\ nextLabel' = [nextLabel EXCEPT ![j] = Max({labels[i] : i \in SpikeIds}) + 1]
    /\ spc' = [spc EXCEPT ![j] = "read"]
    /\ UNCHANGED <<labels, labelsLock, indicesFull, splitLabels, splitReturned,
                   mergeLabels, presentAtWrite, restOfSplit>>

\* the renumbering of split_labels, and self.labels[indices_full] = -1
SplitClear(j) ==
    /\ spc[j] = "read"
    /\ splitLabels' = [splitLabels EXCEPT ![j] = Renumber(splitLabels[j], nextLabel[j], j)]
    /\ presentAtWrite' = [presentAtWrite EXCEPT ![j] = {labels[i] : i \in SpikeIds}]
    /\ labels' = [i \in SpikeIds |-> IF i \in indicesFull[j] THEN -1 ELSE labels[i]]
    /\ spc' = [spc EXCEPT ![j] = "cleared"]
    /\ UNCHANGED <<labelsLock, indicesFull, nextLabel, splitReturned, mergeLabels,
                   restOfSplit>>

\* self.labels[sp.indices] = split_labels, and the exit of the with block
SplitStore(j) ==
    /\ spc[j] = "cleared"
    /\ labels' = [i \in SpikeIds |->
                    IF i \in indicesFull[j] THEN splitLabels[j][i] ELSE labels[i]]
    /\ labelsLock' = -1
    /\ spc' = [spc EXCEPT ![j] = "done"]
    /\ UNCHANGED <<indicesFull, splitLabels, nextLabel, splitReturned, mergeLabels,
                   presentAtWrite, restOfSplit>>

\* split: every job of the pool (one for each of unit_ids()) has finished;
\* del self.units[:]
SplitEnd ==
    /\ ~splitReturned
    /\ \A j \in UnitIds : spc[j] \in {"none", "returned", "done"}
    /\ splitReturned' = TRUE
    /\ UNCHANGED <<labels, labelsLock, spc, indicesFull, splitLabels, nextLabel,
                   mergeLabels, presentAtWrite, restOfSplit>>

\* the labels before a split: every spike in a unit, spikes ordered by unit
InitSplit ==
    /\ PeelerAtRest
    /\ RgIdle
    /\ WorkerIdle
    /\ DiffIdle
    /\ LogLikIdle
    /\ ComposeIdle
    /\ DecolliderIdle
    /\ TemplatesIdle
    /\ MeanIdle
    /\ BimodIdle
    /\ ReassignIdle
    /\ EmIdle
    /\ labels \in [SpikeIds -> UnitIds]
    /\ \A i \in SpikeIds : i > 1 => labels[i - 1] <= labels[i]
    /\ labelsLock = -1
    /\ spc = [j \in UnitIds |-> IF j \in unit_ids(labels) THEN "start" ELSE "none"]
    /\ indicesFull = [j \in UnitIds |-> {}]
    /\ splitLabels = [j \in UnitIds |-> <<>>]
    /\ nextLabel = [j \in UnitIds |-> 0]
    /\ splitReturned = FALSE
    /\ mergeLabels = [j \in UnitIds |-> <<>>]
    /\ presentAtWrite = [j \in UnitIds |-> {}]

NextSplit ==
    \/ \E j \in UnitIds : SplitCluster(j)
    \/ \E j \in UnitIds : SplitAcquire(j)
    \/ \E j \in UnitIds : SplitReadMax(j)
    \/ \E j \in UnitIds : SplitClear(j)
    \/ \E j \in UnitIds : SplitStore(j)
    \/ SplitEnd

SpecSplit == InitSplit /\ [][NextSplit]_vars

\* C11: whatever the interleaving of the split threads, a thread that has
\* written gave its sub-cluster 0 the id of its unit and every other
\* sub-cluster a label greater than every label the array held when it wrote,
\* and two spikes carry the same label exactly if they are in the same
\* sub-cluster of the same unit.
C11_FreshLabels ==
    /\ \A j \in UnitIds : spc[j] = "done" =>
          \A i \in indicesFull[j] :
             /\ mergeLabels[j][i] = 0 => labels[i] = j
             /\ mergeLabels[j][i] >= 1 => \A l \in presentAtWrite[j] : labels[i] > l
    /\ \A j1, j2 \in UnitIds : (spc[j1] = "done" /\ spc[j2] = "done") =>
          \A i1 \in indicesFull[j1], i2 \in indicesFull[j2] :
             (mergeLabels[j1][i1] >= 0 /\ mergeLabels[j2][i2] >= 0) =>
                ((labels[i1] = labels[i2]) <=>
                    (j1 = j2 /\ mergeLabels[j1][i1] = mergeLabels[j2][i2]))

\* two units have each been split into two sub-clusters, and split returned
C11_Witness ==
    /\ splitReturned
    /\ \A j \in UnitIds : spc[j] = "done"
    /\ \A j \in UnitIds : \E i1, i2 \in indicesFull[j] :
          mergeLabels[j][i1] = 0 /\ mergeLabels[j][i2] >= 1

\* the sub-clusters with a spike that the mini merge left of unit j
Survivors(j) == {mergeLabels[j][i] : i \in indicesFull[j]} \ {-1}

\* C17: a thread of kmeans_split_unit that ended with a single surviving
\* sub-cluster, by the early return after k-means or after a mini merge into
\* one sub-cluster, has left every spike of its unit with the unit's label.
C17_SingleSurvivorKeepsLabels ==
    \A j \in UnitIds :
       (\/ spc[j] = "returned"
        \/ spc[j] = "done" /\ Cardinality(Survivors(j)) = 1)
          => \A i \in indicesFull[j] : labels[i] = j

\* ==== SpikeMixtureModel.em: e_step (reassign, cleanup) and m_step

EmSpikeIds == 1..EmSpikes

\* the entries of s at the 0-based positions in K
SelectIdx(s, K) ==
    LET F[n \in 0..Len(s)] ==
            IF n = 0 THEN <<>>
            ELSE IF (n - 1) \in K THEN Append(F[n - 1], s[n]) ELSE F[n - 1]
    IN F[Len(s)]

\* has_noise_unit = log_liks.shape[1] > len(self.units); shape[1] is n_spikes
HasNoiseUnit(us) == EmSpikes > Len(us)

\* log_likelihoods: a row for each unit, then the row of the noise unit
LogLikRows(us) == us \o <<-1>>

\* loglik_reassign on the rows a that sparse_reassign chose (0-based)
LoglikReassign(a, us) ==
    [i \in EmSpikeIds |-> IF HasNoiseUnit(us) /\ a[i] >= Len(us) THEN -1 ELSE a[i]]

\* reassign_count = (self.labels != assignments).sum()
ReassignCount(lab, asg) == Cardinality({i \in EmSpikeIds : lab[i] # asg[i]})

\* unit_ids[big_enough]: the units in use with at least min_count spikes
BigEnough_all(lab) == unit_ids(lab)

BigEnough(lab) ==
    {u \in unit_ids(lab) : Cardinality({i \in EmSpikeIds : lab[i] = u}) >= MinCount}

\* relabel_units(old_labels), not flat, new_labels = arange: a kept label
\* becomes its position in old_labels (searchsorted), every other one -1
relabel_units(lab, old_labels) ==
    [i \in EmSpikeIds |->
        IF lab[i] \in old_labels
        THEN Cardinality({u \in old_labels : u < lab[i]})
        ELSE -1]

\* cleanup(log_liks, clean_units) on labels lab, units us and matrix rows
cleanup(lab, us, rows, clean_units) ==
    LET ids == unit_ids(lab)
        big == BigEnough(lab)
        lab2 == relabel_units(lab, big)
        us2 == IF clean_units /\ Len(us) > 0 THEN SelectIdx(us, big) ELSE us
    IN IF \E u \in ids : u >= Len(us)
       THEN \* keep[unit_ids] = big_enough indexes past the end of keep
            [labels |-> lab, units |-> us, rows |-> rows, exc |-> "IndexError"]
       ELSE IF big = ids
       THEN [labels |-> lab, units |-> us, rows |-> rows, exc |-> "none"]
       ELSE IF ~HasNoiseUnit(us)
       THEN \* assert keep.numel() == log_liks.shape[0]
            [labels |-> lab2, units |-> us2, rows |-> rows, exc |-> "AssertionError"]
       ELSE [labels |-> lab2, units |-> us2,
             rows |-> SelectIdx(rows, big \cup {Len(us)}), exc |-> "none"]

\* e_step(clean_units) when sparse_reassign chooses row a[i] for spike i
e_step(lab, us, clean_units, a) ==
    LET asg == LoglikReassign(a, us)
        c == cleanup(asg, us, LogLikRows(us), clean_units)
    IN [labels |-> c.labels, units |-> c.units, rows |-> c.rows, exc |-> c.exc,
        reas |-> ReassignCount(lab, asg),
        rowOf |-> [i \in EmSpikeIds |-> LogLikRows(us)[a[i] + 1]]]

\* m_step: a unit is fitted for each of unit_ids(), in order
FittedUnits(lab) == SortedSeq(unit_ids(lab))

\* if not final_e_step: return
RunsFinalEStep_never(fe) == FALSE

RunsFinalEStep(fe) == fe

restOfEm == <<peelVars, needVars, fitVars, splitVars, reassignVars, bimodVars, meanVars, templateVars, decolliderVars, composeVars, loglikVars, diffVars, workerVars, rgVars>>

\* em raises exception e
EmRaise(e) ==
    /\ epc' = "raised"
    /\ emExc' = e

\* em(n_iter, show_progress, final_e_step) is called: the progress setup and
\* the first M step of a model without units.  step_progress is bound only
\* under show_progress.
EmCall ==
    /\ epc = "idle"
    /\ \E n \in 0..MaxEmIter, sp \in BOOLEAN, fe \in BOOLEAN,
          cc \in {0, 1, EmSpikes + 1} :
          /\ nIter' = n
          /\ showProgress' = sp
          /\ finalEStep' = fe
          /\ convergedCount' = cc
          /\ IF units = <<>>
             THEN IF sp
                  THEN /\ units' = FittedUnits(labels)
                       /\ epc' = "loop"
                       /\ UNCHANGED emExc
                  ELSE /\ EmRaise("step_progress unbound")
                       /\ UNCHANGED units
             ELSE /\ epc' = "loop"
                  /\ UNCHANGED <<units, emExc>>
    /\ UNCHANGED <<labels, logLiks, emRounds, reasCount, emReturn, rowOf, cleanESteps,
                   convergedRounds, leftLoop, restOfEm>>

\* a round of the loop begins: stack_units and the E step without unit cleanup
EmRoundE ==
    /\ epc = "loop"
    /\ emRounds < nIter
    /\ emRounds' = emRounds + 1
    /\ IF ~showProgress
       THEN /\ EmRaise("step_progress unbound")
            /\ UNCHANGED <<labels, units, logLiks, reasCount, rowOf>>
       ELSE IF units = <<>>
       THEN \* log_likelihoods without units: its loop variable j is unbound
            /\ EmRaise("j unbound")
            /\ UNCHANGED <<labels, units, logLiks, reasCount, rowOf>>
       ELSE \E a \in [EmSpikeIds -> 0..Len(units)] :
               LET e == e_step(labels, units, FALSE, a)
               IN /\ labels' = e.labels
                  /\ units' = e.units
                  /\ logLiks' = e.rows
                  /\ rowOf' = e.rowOf
                  /\ reasCount' = e.reas
                  /\ IF e.exc = "none"
                     THEN epc' = "mstep" /\ UNCHANGED emExc
                     ELSE EmRaise(e.exc)
    /\ UNCHANGED <<nIter, showProgress, finalEStep, convergedCount, emReturn,
                   cleanESteps, convergedRounds, leftLoop, restOfEm>>

\* the M step of the round, and the two convergence tests
EmRoundM ==
    /\ epc = "mstep"
    /\ units' = FittedUnits(labels)
    /\ IF unit_ids(labels) = {}
       THEN \* rdif = torch.max(...) of an empty tensor
            /\ EmRaise("RuntimeError")
            /\ UNCHANGED <<convergedRounds, leftLoop>>
       ELSE \E rdifSmall \in BOOLEAN :
               /\ UNCHANGED emExc
               /\ IF reasCount < convergedCount \/ rdifSmall
                  THEN /\ epc' = "after"
                       /\ leftLoop' = "break"
                       /\ convergedRounds' = convergedRounds + 1
                  ELSE /\ epc' = "loop"
                       /\ UNCHANGED <<convergedRounds, leftLoop>>
    /\ UNCHANGED <<labels, logLiks, nIter, showProgress, finalEStep, convergedCount,
                   emRounds, reasCount, emReturn, rowOf, cleanESteps, restOfEm>>

\* the loop has run n_iter rounds
EmCap ==
    /\ epc = "loop"
    /\ emRounds = nIter
    /\ epc' = "after"
    /\ leftLoop' = "cap"
    /\ UNCHANGED <<labels, units, logLiks, nIter, showProgress, finalEStep,
                   convergedCount, emRounds, reasCount, emExc, emReturn, rowOf,
                   cleanESteps, convergedRounds, restOfEm>>

\* after the loop: return, or the final E step with unit cleanup and the
\* return of its matrix
EmFinal ==
    /\ epc = "after"
    /\ IF ~RunsFinalEStep(finalEStep)
       THEN /\ epc' = "returned"
            /\ emReturn' = <<>>
            /\ UNCHANGED <<labels, units, logLiks, reasCount, emExc, rowOf, cleanESteps>>
       ELSE /\ cleanESteps' = cleanESteps + 1
            /\ IF units = <<>>
               THEN /\ EmRaise("j unbound")
                    /\ UNCHANGED <<labels, units, logLiks, reasCount, emReturn, rowOf>>
               ELSE \E a \in [EmSpikeIds -> 0..Len(units)] :
                       LET e == e_step(labels, units, TRUE, a)
                       IN /\ labels' = e.labels
                          /\ units' = e.units
                          /\ logLiks' = e.rows
                          /\ rowOf' = e.rowOf
                          /\ reasCount' = e.reas
                          /\ IF e.exc = "none"
                             THEN /\ epc' = "returned"
                                  /\ emReturn' = e.rows
                                  /\ UNCHANGED emExc
                             ELSE /\ EmRaise(e.exc)
                                  /\ UNCHANGED emReturn
    /\ UNCHANGED <<nIter, showProgress, finalEStep, convergedCount, emRounds,
                   convergedRounds, leftLoop, restOfEm>>

\* a model before em: the labels of the initial sorting (spikes ordered by
\* unit), and either no unit models or the models of the last M step
InitEm ==
    /\ PeelerAtRest
    /\ RgIdle
    /\ WorkerIdle
    /\ DiffIdle
    /\ LogLikIdle
    /\ ComposeIdle
    /\ DecolliderIdle
    /\ TemplatesIdle
    /\ MeanIdle
    /\ BimodIdle
    /\ ReassignIdle
    /\ SplitIdle
    /\ labels \in [EmSpikeIds -> -1..(EmSpikes - 1)]
    /\ \A i \in EmSpikeIds : i > 1 => labels[i - 1] <= labels[i]
    /\ units \in {<<>>, FittedUnits(labels)}
    /\ logLiks = <<>>
    /\ epc = "idle"
    /\ nIter = 0
    /\ showProgress = FALSE
    /\ finalEStep = FALSE
    /\ convergedCount = 0
    /\ emRounds = 0
    /\ reasCount = 0
    /\ emExc = "none"
    /\ emReturn = <<>>
    /\ rowOf = [i \in EmSpikeIds |-> -1]
    /\ cleanESteps = 0
    /\ convergedRounds = 0
    /\ leftLoop = "no"

NextEm ==
    \/ EmCall
    \/ EmRoundE
    \/ EmRoundM
    \/ EmCap
    \/ EmFinal

SpecEm == InitEm /\ [][NextEm]_vars

\* ---- the claims about em

\* the labels in use
UsedLabels == {labels[i] : i \in DOMAIN labels} \ {-1}

\* C12: when em has returned from its final E step (clean_units=True), the
\* labels in use are exactly 0..K-1 for K = len(self.units), the model at
\* position j of the units list is the one the spikes labelled j were
\* assigned to, and the matrix has the K unit rows and the noise row.
C12_ContiguousAfterCleanup ==
    (epc = "returned" /\ cleanESteps = 1) =>
        /\ UsedLabels = 0..(Len(units) - 1)
        /\ \A i \in EmSpikeIds :
              labels[i] >= 0 => (labels[i] < Len(units) /\ units[labels[i] + 1] = rowOf[i])
        /\ logLiks = units \o <<-1>>

\* C13: after an E step that returned (in the loop, or the final one), every
\* label in use has at least min_count spikes, and a spike assigned to a unit
\* that got fewer than min_count spikes, or to the noise unit, is labelled -1.
C13_SmallUnitsRemoved ==
    (epc = "mstep" \/ (epc = "returned" /\ cleanESteps = 1)) =>
        /\ \A u \in UsedLabels : Cardinality({i \in EmSpikeIds : labels[i] = u}) >= MinCount
        /\ \A i \in EmSpikeIds :
              Cardinality({k \in EmSpikeIds : rowOf[k] = rowOf[i]}) < MinCount
                 => labels[i] = -1
        /\ \A i \in EmSpikeIds : rowOf[i] = -1 => labels[i] = -1

\* an E step removed one unit and kept another
C13_Witness ==
    /\ epc = "mstep"
    /\ \E i \in EmSpikeIds : rowOf[i] >= 0 /\ labels[i] = -1
    /\ \E i \in EmSpikeIds : labels[i] >= 0

\* C15: em begins at most n_iter rounds, a round whose convergence test holds
\* is the last one, the loop ends otherwise only at the cap, and this is so
\* with show_progress false as with show_progress true (em does not fail on
\* the progress setting).
C15_LoopBoundedAndStops ==
    /\ emRounds <= nIter
    /\ convergedRounds <= 1
    /\ convergedRounds = 1 => leftLoop = "break"
    /\ leftLoop = "cap" => (emRounds = nIter /\ convergedRounds = 0)
    /\ leftLoop = "break" => convergedRounds = 1
    /\ emExc # "step_progress unbound"

\* C16 as stated: every call of em that returns has run one cleanup E step
\* after the loop and returns that E step's matrix.
C16_AlwaysFinalEStep ==
    epc = "returned" =>
        /\ cleanESteps = 1
        /\ leftLoop # "no"
        /\ emReturn = logLiks
        /\ emReturn # <<>>

\* C16 amended: a call of em with final_e_step true that returns has run
\* exactly one cleanup E step, after the loop was left by a break or at the
\* cap, and returns that E step's matrix; no cleanup E step runs before the
\* loop is left; a call with final_e_step false returns None without one.
C16_FinalEStepUnlessOptedOut ==
    /\ cleanESteps <= 1
    /\ cleanESteps = 1 => leftLoop # "no"
    /\ (epc = "returned" /\ finalEStep) =>
          /\ cleanESteps = 1
          /\ emReturn = logLiks
          /\ emReturn # <<>>
    /\ (epc = "returned" /\ ~finalEStep) => (cleanESteps = 0 /\ emReturn = <<>>)

\* em returned the matrix of its final E step after an early stop
C16_Witness ==
    /\ epc = "returned"
    /\ finalEStep
    /\ leftLoop = "break"
    /\ emRounds < nIter
    /\ cleanESteps = 1
    /\ emReturn = logLiks

\* C23: after the reassign of an E step (whether the cleanup that follows
\* returns or raises), every label is -1 or a unit index below len(units),
\* and a spike whose best row is the noise row is labelled -1.
C23_LabelsValidAfterReassign ==
    (\/ epc = "mstep"
     \/ epc = "returned" /\ cleanESteps = 1
     \/ emExc \in {"IndexError", "AssertionError"}) =>
        \A i \in EmSpikeIds :
            /\ labels[i] >= -1
            /\ labels[i] < Len(units)
            /\ rowOf[i] = -1 => labels[i] = -1

\* C24: after every M step of the loop, units[j] is the model fitted from
\* the spikes labelled j: every label in use is a position of the units list
\* and the model at that position was fitted from that label, also when the
\* label ids have gaps.
C24_UnitsIndexedByLabel ==
    (emRounds >= 1 /\ epc \in {"loop", "after"}) =>
        \A i \in EmSpikeIds :
            labels[i] >= 0 =>
                /\ labels[i] < Len(units)
                /\ units[labels[i] + 1] = labels[i]

\* ==== sparse_reassign and hot_argmax_loop

\* the likelihood values of the model, in units of ln 2 (so exp(v) is 2^v)
LikValues == {-1, 0, 1}

SrRows == 0..(SrUnits - 1)

SrCols == 1..SrSpikes

\* the sparse matrices: a value for each stored entry
SparseMatrices == UNION {[S -> LikValues] : S \in SUBSET (SrRows \X SrCols)}

\* liks.nnz
Nnz(liks) == Cardinality(DOMAIN liks)

\* liks.tocsc(): indices[indptr[i]:indptr[i+1]], the rows stored in column i,
\* in order, and data[indptr[i]:indptr[i+1]], their values
CscIndices(liks, i) == SortedSeq({r \in SrRows : <<r, i>> \in DOMAIN liks})

CscData(liks, i) == [k \in 1..Len(CscIndices(liks, i)) |-> liks[<<CscIndices(liks, i)[k], i>>]]

\* nz_lines = np.flatnonzero(np.diff(liks.indptr))
NzLines(liks) == {i \in SrCols : Len(CscIndices(liks, i)) > 0}

\* dx.argmax(): the first position of the largest value
ArgMax(dx) ==
    CHOOSE k \in DOMAIN dx :
        /\ \A j \in DOMAIN dx : dx[j] <= dx[k]
        /\ \A j \in DOMAIN dx : j < k => dx[j] < dx[k]

RECURSIVE Pow2(_)
Pow2(n) == IF n <= 0 THEN 1 ELSE 2 * Pow2(n - 1)

LikSpan == Max(LikValues) - (-Max({-v : v \in LikValues}))

\* sum over the entries of dx of 2^(dx[k] - base)
RECURSIVE SumPow2(_, _, _)
SumPow2(dx, base, n) ==
    IF n = 0 THEN 0 ELSE Pow2(dx[n] - base) + SumPow2(dx, base, n - 1)

\* mx + np.log(np.exp(dx - mx).sum()): the value mx + log2(sum / 2^LikSpan)
LogSumExp(dx) ==
    LET mx == dx[ArgMax(dx)]
    IN [mx |-> mx, sum |-> SumPow2(dx, mx - LikSpan, Len(dx))]

\* -np.inf
MinusInf == [mx |-> 0, sum |-> 0]

\* hot_argmax_loop on arrays filled with -1 and -inf
HotAssignments(liks) ==
    [i \in SrCols |->
        IF i \in NzLines(liks)
        THEN CscIndices(liks, i)[ArgMax(CscData(liks, i))]
        ELSE -1]

HotScores(liks) ==
    [i \in SrCols |->
        IF i \in NzLines(liks) THEN LogSumExp(CscData(liks, i)) ELSE MinusInf]

\* the tuple sparse_reassign returns
sparse_reassign(liks, return_csc) ==
    IF Nnz(liks) = 0
    THEN <<[i \in SrCols |-> -1], [i \in SrCols |-> MinusInf]>>
    ELSE IF return_csc
    THEN <<[i \in SrCols |-> CscData(liks, i)], HotAssignments(liks), HotScores(liks)>>
    ELSE <<HotAssignments(liks), HotScores(liks)>>

restOfReassign == <<peelVars, needVars, fitVars, labels, splitVars, emVars, bimodVars, meanVars, templateVars, decolliderVars, composeVars, loglikVars, diffVars, workerVars, rgVars>>

SrCall ==
    /\ srPc = "call"
    /\ srResult' = sparse_reassign(srLiks, srReturnCsc)
    /\ srPc' = "returned"
    /\ UNCHANGED <<srLiks, srReturnCsc, restOfReassign>>

InitReassign ==
    /\ PeelerAtRest
    /\ RgIdle
    /\ WorkerIdle
    /\ DiffIdle
    /\ LogLikIdle
    /\ ComposeIdle
    /\ DecolliderIdle
    /\ TemplatesIdle
    /\ MeanIdle
    /\ BimodIdle
    /\ labels = <<>>
    /\ SplitIdle
    /\ EmIdle
    /\ srLiks \in SparseMatrices
    /\ srReturnCsc \in BOOLEAN
    /\ srPc = "call"
    /\ srResult = <<>>

NextReassign == SrCall

SpecReassign == InitReassign /\ [][NextReassign]_vars

\* the values stored in column i
StoredIn(i) == {r \in SrRows : <<r, i>> \in DOMAIN srLiks}

\* sum over the rows in R of 2^(value in column i, counted from the least value)
RECURSIVE DirectSum(_, _)
DirectSum(R, i) ==
    IF R = {} THEN 0
    ELSE LET r == CHOOSE x \in R : TRUE
         IN Pow2(srLiks[<<r, i>>] + LikSpan) + DirectSum(R \ {r}, i)

\* C14: sparse_reassign returns (after the CSC matrix, if requested) for
\* every spike with a stored entry a row holding its largest stored value
\* and the log-sum-exp of its stored values, and for every spike without a
\* stored entry -1; so also for a matrix without stored entries.
C14_ArgmaxOverStored ==
    srPc = "returned" =>
        LET n == IF srReturnCsc THEN 3 ELSE 2
        IN /\ Len(srResult) = n
           /\ \A i \in SrCols :
                 LET a == srResult[n - 1][i]
                     s == srResult[n][i]
                 IN IF StoredIn(i) = {}
                    THEN a = -1
                    ELSE /\ a \in StoredIn(i)
                         /\ \A r \in StoredIn(i) : srLiks[<<r, i>>] <= srLiks[<<a, i>>]
                         /\ s.mx = srLiks[<<a, i>>]
                         /\ s.sum * Pow2(s.mx + LikSpan) = DirectSum(StoredIn(i), i) * Pow2(LikSpan)

\* ==== unit_pair_bimodality and qda

\* np.inf as a score, and a finite score
InfScore == [inf |-> TRUE, val |-> 0]

FiniteScore(v) == [inf |-> FALSE, val |-> v]

\* the values of min_overlap tried, in percent (0.80 is the default)
OverlapPercents == {0, 80, 100}

\* min(ina.numel(), inb.numel()) < 5
TooFewSpikes_both(na, nb) == na < MinUnitSpikes /\ nb < MinUnitSpikes

TooFewSpikes(na, nb) == Min(na, nb) < MinUnitSpikes

\* keep_prop < min_overlap or keep.sum() < min_count, for keep = isfinite(diff)
\* with nfinite true entries of ntotal; the mean of an empty keep is nan,
\* and nan < min_overlap is false
InsufficientOverlap(nfinite, ntotal, min_overlap) ==
    \/ ntotal > 0 /\ nfinite * 100 < min_overlap * ntotal
    \/ nfinite < QdaMinCount

\* qda: +inf on insufficient overlap, else the smoothed dip score
qda(nfinite, ntotal, min_overlap, dip) ==
    IF InsufficientOverlap(nfinite, ntotal, min_overlap)
    THEN InfScore
    ELSE FiniteScore(dip)

\* unit_pair_bimodality with debug false; shrinkfit keeps every spike of a
\* unit of at most max_spikes spikes
unit_pair_bimodality(na, nb, keptA, keptB, finA, finB, min_overlap, dip) ==
    IF TooFewSpikes(na, nb)
    THEN InfScore
    ELSE qda(finA + finB, keptA + keptB, min_overlap, dip)

restOfBimod == <<peelVars, needVars, fitVars, labels, splitVars, emVars, reassignVars, meanVars, templateVars, decolliderVars, composeVars, loglikVars, diffVars, workerVars, rgVars>>

BimodCall ==
    /\ bmPc = "call"
    /\ bmScore' = unit_pair_bimodality(bmInA, bmInB, bmKeptA, bmKeptB, bmFiniteA,
                                       bmFiniteB, bmMinOverlap, bmDip)
    /\ bmPc' = "returned"
    /\ UNCHANGED <<bmInA, bmInB, bmMasked, bmKeptA, bmKeptB, bmFiniteA, bmFiniteB,
                   bmMinOverlap, bmDip, restOfBimod>>

\* a pair of units: the time mask keeps some of their spikes (all without
\* masked), and some of the kept spikes have both likelihoods stored
InitBimod ==
    /\ PeelerAtRest
    /\ RgIdle
    /\ WorkerIdle
    /\ DiffIdle
    /\ LogLikIdle
    /\ ComposeIdle
    /\ DecolliderIdle
    /\ TemplatesIdle
    /\ MeanIdle
    /\ labels = <<>>
    /\ SplitIdle
    /\ EmIdle
    /\ ReassignIdle
    /\ bmInA \in 0..MaxUnitSpikes
    /\ bmInB \in 0..MaxUnitSpikes
    /\ bmMasked \in BOOLEAN
    /\ bmKeptA \in (IF bmMasked THEN 0..bmInA ELSE {bmInA})
    /\ bmKeptB \in (IF bmMasked THEN 0..bmInB ELSE {bmInB})
    /\ bmFiniteA \in 0..bmKeptA
    /\ bmFiniteB \in 0..bmKeptB
    /\ bmMinOverlap \in OverlapPercents
    /\ bmDip \in 0..1
    /\ bmPc = "call"
    /\ bmScore = FiniteScore(0)

NextBimod == BimodCall

SpecBimod == InitBimod /\ [][NextBimod]_vars

\* C18: the score of a pair is +inf whenever a unit has fewer than 5 spikes,
\* fewer than 5 spikes of the pair have a finite likelihood difference, or
\* the finite fraction is below min_overlap, whatever the likelihood values
\* (the dip score they would give); the call returns.
C18_InsufficientEvidenceIsInf ==
    /\ bmPc \in {"call", "returned"}
    /\ bmPc = "returned" =>
          ((\/ bmInA < 5
            \/ bmInB < 5
            \/ bmFiniteA + bmFiniteB < 5
            \/ (bmFiniteA + bmFiniteB) * 100 < bmMinOverlap * (bmKeptA + bmKeptB))
              => (bmScore.inf /\ bmScore.val = 0))

\* one unit is large enough and has finite differences enough for qda, the
\* other is too small: the score is +inf though a dip score exists
C18_Witness ==
    /\ bmPc = "returned"
    /\ bmInA < 5
    /\ bmInB >= 5
    /\ bmFiniteA + bmFiniteB >= 5
    /\ (bmFiniteA + bmFiniteB) * 100 >= bmMinOverlap * (bmKeptA + bmKeptB)
    /\ bmDip = 1
    /\ bmScore.inf

\* ==== GaussianUnit.fit_mean and to_full_probe

\* tensor entries are fractions n/d; 0/0 is nan
Frac(n, d) == [n |-> n, d |-> d]

Nan == Frac(0, 0)

IsNan(x) == x.d = 0

\* a / b of two integers, b >= 0 (0 / 0 is nan)
FracDiv(a, b) == IF b = 0 THEN Nan ELSE Frac(a, b)

FracMul(x, y) == IF IsNan(x) \/ IsNan(y) THEN Nan ELSE Frac(x.n * y.n, x.d * y.d)

FracAdd(x, y) ==
    IF IsNan(x) \/ IsNan(y) THEN Nan ELSE Frac(x.n * y.d + y.n * x.d, x.d * y.d)

\* x == y as numbers; nan equals nothing
FracEq(x, y) == ~IsNan(x) /\ ~IsNan(y) /\ x.n * y.d = y.n * x.d

\* nan_to_num_()
NanToNum(x) == IF IsNan(x) THEN Frac(0, 1) ELSE x

MeanSpikeIds == 1..MeanSpikes

ProbeChans == 0..(MeanChans - 1)

\* to_full_probe: weights_full[s, c], 1 (times the weight) where spike s has
\* channel c, and features_full[s, c] after nan_to_num_
WeightsFull(chans, weights, s, c) ==
    IF c \in chans[s] THEN (IF weights = <<>> THEN 1 ELSE weights[s]) ELSE 0

FeaturesFull(chans, feats, s, c) == IF c \in chans[s] THEN feats[s] ELSE 0

\* count_data = weights_full.sum(0)
RECURSIVE CountData(_, _, _, _)
CountData(chans, weights, c, n) ==
    IF n = 0 THEN 0
    ELSE WeightsFull(chans, weights, n, c) + CountData(chans, weights, c, n - 1)

\* weights_normalized = (weights_full / count_data).nan_to_num_()
WeightsNormalized(chans, weights, s, c) ==
    NanToNum(FracDiv(WeightsFull(chans, weights, s, c),
                     CountData(chans, weights, c, MeanSpikes)))

\* emp_mean = vecdot(weights_normalized, features_full, dim=0)
RECURSIVE EmpMean(_, _, _, _, _)
EmpMean(chans, feats, weights, c, n) ==
    IF n = 0 THEN Frac(0, 1)
    ELSE FracAdd(FracMul(WeightsNormalized(chans, weights, n, c),
                         Frac(FeaturesFull(chans, feats, n, c), 1)),
                 EmpMean(chans, feats, weights, c, n - 1))

\* w0 = prior_pseudocount / count_full, w1 = count_data / count_full
PriorWeight(p, count) == FracDiv(p, p + count)

DataWeight(p, count) == FracDiv(count, p + count)

\* m = emp_mean * w1 + self.noise.mean_full * w0
NiwMean(emp, w1, noise_mean, w0) == FracAdd(FracMul(emp, w1), FracMul(Frac(noise_mean, 1), w0))

restOfMean == <<peelVars, needVars, fitVars, labels, splitVars, emVars, reassignVars,
                bimodVars, templateVars, decolliderVars, composeVars, loglikVars, diffVars, workerVars, rgVars>>

FitMean ==
    /\ fmPc = "call"
    /\ fmEmp' = [c \in ProbeChans |->
                    EmpMean(fmChannels, fmFeatures, fmWeights, c, MeanSpikes)]
    /\ fmW0' = [c \in ProbeChans |->
                    PriorWeight(fmPseudo, CountData(fmChannels, fmWeights, c, MeanSpikes))]
    /\ fmW1' = [c \in ProbeChans |->
                    DataWeight(fmPseudo, CountData(fmChannels, fmWeights, c, MeanSpikes))]
    /\ fmMean' = [c \in ProbeChans |-> NiwMean(fmEmp'[c], fmW1'[c], fmNoiseMean, fmW0'[c])]
    /\ fmPc' = "returned"
    /\ UNCHANGED <<fmChannels, fmFeatures, fmWeights, fmPseudo, fmNoiseMean, restOfMean>>

InitMean ==
    /\ PeelerAtRest
    /\ RgIdle
    /\ WorkerIdle
    /\ DiffIdle
    /\ LogLikIdle
    /\ ComposeIdle
    /\ DecolliderIdle
    /\ TemplatesIdle
    /\ labels = <<>>
    /\ SplitIdle
    /\ EmIdle
    /\ ReassignIdle
    /\ BimodIdle
    /\ fmChannels \in [MeanSpikeIds -> SUBSET ProbeChans]
    /\ fmFeatures \in [MeanSpikeIds -> 1..2]
    /\ fmWeights \in {<<>>} \cup [MeanSpikeIds -> 1..2]
    /\ fmPseudo \in 0..MaxPseudo
    /\ fmNoiseMean \in 0..1
    /\ fmPc = "call"
    /\ fmMean = <<>>
    /\ fmEmp = <<>>
    /\ fmW0 = <<>>
    /\ fmW1 = <<>>

NextMean == FitMean

SpecMean == InitMean /\ [][NextMean]_vars

\* the weight spike s has on channel c, and the sums over the spikes
SpikeWeight(s, c) ==
    IF c \in fmChannels[s] THEN (IF fmWeights = <<>> THEN 1 ELSE fmWeights[s]) ELSE 0

RECURSIVE WeightSum(_, _)
WeightSum(c, n) == IF n = 0 THEN 0 ELSE SpikeWeight(n, c) + WeightSum(c, n - 1)

RECURSIVE WeightedSum(_, _)
WeightedSum(c, n) ==
    IF n = 0 THEN 0 ELSE SpikeWeight(n, c) * fmFeatures[n] + WeightedSum(c, n - 1)

\* C19: on every channel of the probe the fitted mean is w1 * (weighted
\* empirical mean) + w0 * (noise mean) with w1 = n/(p+n), w0 = p/(p+n) and
\* w0 + w1 = 1, n the sum of the weights of the spikes on the channel; with
\* pseudocount 0 it is the weighted empirical mean.
C19_NiwBlend ==
    fmPc = "returned" =>
        \A c \in ProbeChans :
            LET n == WeightSum(c, MeanSpikes)
                sum == WeightedSum(c, MeanSpikes)
            IN /\ FracEq(FracAdd(fmW0[c], fmW1[c]), Frac(1, 1))
               /\ fmW1[c].n * (fmPseudo + n) = n * fmW1[c].d
               /\ fmW0[c].n * (fmPseudo + n) = fmPseudo * fmW0[c].d
               /\ fmMean[c].n * (fmPseudo + n) = (sum + fmPseudo * fmNoiseMean) * fmMean[c].d
               /\ fmMean[c].d # 0
               /\ fmPseudo = 0 => fmMean[c].n * n = sum * fmMean[c].d

\* ==== get_templates (spike_psvae/snr_templates.py)

\* the channels of geom (two of them)
TplChans == 0..1

\* a template on one channel: two samples
TplSamples == 1..2

Amps == 0..MaxAmp

Abs(x) == IF x < 0 THEN 0 - x ELSE x

\* raw_templates[unit].ptp(0) on channel c
Ptp(tpl, c) == Abs(tpl[c][1] - tpl[c][2])

\* (raw_ptp * np.sqrt(len(raw_wfs))).max()
MaxSnr(tpl, sqrt_n) == Max({Ptp(tpl, c) * sqrt_n : c \in TplChans})

\* np.minimum(1.0, snr / snr_threshold)
MinOneOf(snr, snr_threshold) ==
    IF snr >= snr_threshold THEN Frac(1, 1) ELSE Frac(snr, snr_threshold)

\* lerp, broadcast over the samples (and, per unit, over the channels)
Lerp(by_channel, by_chan, snrs, snr_threshold) ==
    [c \in TplChans |->
        IF by_channel THEN MinOneOf(by_chan[c], snr_threshold)
        ELSE MinOneOf(snrs, snr_threshold)]

\* 1 - lerp
OneMinus(x) == Frac(x.d - x.n, x.d)

\* lerp * raw_templates + (1 - lerp) * cleaned_templates
Blend(lerp, raw, cleaned) ==
    [c \in TplChans |->
        [t \in TplSamples |->
            FracAdd(FracMul(lerp[c], Frac(raw[c][t], 1)),
                    FracMul(OneMinus(lerp[c]), Frac(cleaned[c][t], 1)))]]

restOfTemplates == <<peelVars, needVars, fitVars, labels, splitVars, emVars, reassignVars,
                     bimodVars, meanVars, decolliderVars, composeVars, loglikVars, diffVars, workerVars, rgVars>>

\* the loop over the units: the raw template and its SNR; snrs_by_chan is
\* bound only when snr_by_channel is set, and read in either case
TplUnitLoop ==
    /\ tplPc = "call"
    /\ IF tplByChannel
       THEN /\ tplSnrsByChan' = [c \in TplChans |-> Ptp(tplRaw, c) * tplSqrtN]
            /\ tplSnrs' = MaxSnr(tplRaw, tplSqrtN)
            /\ tplPc' = "blend"
       ELSE /\ tplPc' = "NameError"
            /\ UNCHANGED <<tplSnrsByChan, tplSnrs>>
    /\ UNCHANGED <<tplByChannel, tplThreshold, tplSqrtN, tplRaw, tplCleaned, tplLerp,
                   tplTemplates, restOfTemplates>>

\* the SNR-weighted combination
TplBlend ==
    /\ tplPc = "blend"
    /\ tplLerp' = Lerp(tplByChannel, tplSnrsByChan, tplSnrs, tplThreshold)
    /\ tplTemplates' = Blend(tplLerp', tplRaw, tplCleaned)
    /\ tplPc' = "returned"
    /\ UNCHANGED <<tplByChannel, tplThreshold, tplSqrtN, tplRaw, tplCleaned,
                   tplSnrsByChan, tplSnrs, restOfTemplates>>

InitTemplates ==
    /\ PeelerAtRest
    /\ RgIdle
    /\ WorkerIdle
    /\ DiffIdle
    /\ LogLikIdle
    /\ ComposeIdle
    /\ DecolliderIdle
    /\ labels = <<>>
    /\ SplitIdle
    /\ EmIdle
    /\ ReassignIdle
    /\ BimodIdle
    /\ MeanIdle
    /\ tplByChannel \in BOOLEAN
    /\ tplThreshold \in 1..(MaxAmp + 1)
    /\ tplSqrtN \in 1..2
    /\ tplRaw \in [TplChans -> [TplSamples -> Amps]]
    /\ tplCleaned \in [TplChans -> [TplSamples -> Amps]]
    /\ tplPc = "call"
    /\ tplSnrsByChan = <<>>
    /\ tplSnrs = 0
    /\ tplLerp = <<>>
    /\ tplTemplates = <<>>

NextTemplates == TplUnitLoop \/ TplBlend

SpecTemplates == InitTemplates /\ [][NextTemplates]_vars

\* the SNR that decides channel c: its own in the per-channel mode, the
\* unit's largest in the per-unit mode
DecidingSnr(c) ==
    IF tplByChannel
    THEN Abs(tplRaw[c][1] - tplRaw[c][2]) * tplSqrtN
    ELSE Max({Abs(tplRaw[d][1] - tplRaw[d][2]) * tplSqrtN : d \in TplChans})

\* C20: in both modes get_templates returns, 0 <= lerp <= 1, a channel
\* whose SNR is at or above snr_threshold gets exactly the raw template and
\* one whose SNR is 0 exactly the cleaned template.
C20_LerpEndpoints ==
    /\ tplPc # "NameError"
    /\ tplPc = "returned" =>
        \A c \in TplChans :
            /\ tplLerp[c].d > 0
            /\ 0 <= tplLerp[c].n
            /\ tplLerp[c].n <= tplLerp[c].d
            /\ DecidingSnr(c) >= tplThreshold =>
                \A t \in TplSamples :
                    tplTemplates[c][t].n = tplRaw[c][t] * tplTemplates[c][t].d
            /\ DecidingSnr(c) = 0 =>
                \A t \in TplSamples :
                    tplTemplates[c][t].n = tplCleaned[c][t] * tplTemplates[c][t].d

\* ==== Decollider (src/dartsort/transform/decollider.py)

\* the values a caller may pass; "other" stands for every other string
EstimatorArgs == {"n2n", "2n2", "n3n", "3n3", "other"}

InferenceArgs == {"raw", "exz", "amortized", "exy_fake", "other"}

WeightingArgs == {"None", "kmeans", "other"}

\* the assertions of __init__, in the order they run
InitAsserts(est, inf, sw) ==
    /\ inf \in {"raw", "amortized"}
    /\ est \in {"n2n", "2n2", "n3n", "3n3"}
    /\ inf \in {"raw", "exz", "amortized"}
    /\ sw \in {"None", "kmeans"}

\* initialize_nets: the attributes it sets
initialize_nets(est, inf) ==
    (IF est \in {"n2n", "n3n"} THEN {"eyz"} ELSE {})
        \cup (IF est \in {"n3n", "2n2", "3n3"} THEN {"emz"} ELSE {})
        \cup (IF inf = "amortized" THEN {"inf_net"} ELSE {})

\* forward: the branch ends in "assert False"
ForwardAsserts(est, inf) ==
    CASE inf = "amortized" -> FALSE
      [] inf = "raw" -> FALSE
      [] inf = "exz" -> est \notin {"n2n", "2n2", "n3n", "3n3"}
      [] inf = "exy_fake" -> est \notin {"2n2", "3n3"}
      [] OTHER -> TRUE

\* forward: the networks the branch calls
ForwardNets(est, inf) ==
    CASE inf = "amortized" -> {"inf_net"}
      [] inf = "raw" -> {"eyz"}
      [] inf = "exz" /\ est = "n2n" -> {"eyz"}
      [] inf = "exz" /\ est = "2n2" -> {"emz"}
      [] inf = "exz" /\ est = "n3n" -> {"eyz", "emz"}
      [] inf = "exz" /\ est = "3n3" -> {"emz"}
      [] inf = "exy_fake" /\ est \in {"2n2", "3n3"} -> {"emz"}
      [] OTHER -> {}

restOfDecollider == <<peelVars, needVars, fitVars, labels, splitVars, emVars, reassignVars,
                      bimodVars, meanVars, templateVars, composeVars, loglikVars, diffVars, workerVars, rgVars>>

DcConstruct ==
    /\ dcPc = "call"
    /\ dcPc' = IF InitAsserts(dcEstimator, dcInference, dcWeighting)
               THEN "constructed" ELSE "AssertionError"
    /\ UNCHANGED <<dcEstimator, dcInference, dcWeighting, dcNets, dcUsed, restOfDecollider>>

\* fit: _fit calls initialize_nets first
DcFit ==
    /\ dcPc = "constructed"
    /\ dcNets' = initialize_nets(dcEstimator, dcInference)
    /\ dcPc' = "fitted"
    /\ UNCHANGED <<dcEstimator, dcInference, dcWeighting, dcUsed, restOfDecollider>>

\* forward: an attribute that was never set raises AttributeError
DcForward ==
    /\ dcPc = "fitted"
    /\ IF ForwardAsserts(dcEstimator, dcInference)
       THEN dcPc' = "ForwardAssertion" /\ UNCHANGED dcUsed
       ELSE IF ForwardNets(dcEstimator, dcInference) \subseteq dcNets
            THEN /\ dcUsed' = ForwardNets(dcEstimator, dcInference)
                 /\ dcPc' = "returned"
            ELSE /\ dcUsed' = ForwardNets(dcEstimator, dcInference) \cap dcNets
                 /\ dcPc' = "AttributeError"
    /\ UNCHANGED <<dcEstimator, dcInference, dcWeighting, dcNets, restOfDecollider>>

InitDecollider ==
    /\ PeelerAtRest
    /\ RgIdle
    /\ WorkerIdle
    /\ DiffIdle
    /\ LogLikIdle
    /\ ComposeIdle
    /\ labels = <<>>
    /\ SplitIdle
    /\ EmIdle
    /\ ReassignIdle
    /\ BimodIdle
    /\ MeanIdle
    /\ TemplatesIdle
    /\ dcEstimator \in EstimatorArgs
    /\ dcInference \in InferenceArgs
    /\ dcWeighting \in WeightingArgs
    /\ dcPc = "call"
    /\ dcNets = {}
    /\ dcUsed = {}

NextDecollider == DcConstruct \/ DcFit \/ DcForward

SpecDecollider == InitDecollider /\ [][NextDecollider]_vars

\* C21: construction succeeds with each of the inference modes raw, exz,
\* amortized, exy_fake and each of the estimators n2n, 2n2, n3n, 3n3 (and a
\* valid sample weighting), and fails with an assertion for any other
\* inference mode or estimator.
C21_FourModesConstruct ==
    dcPc # "call" =>
        /\ (/\ dcInference \in {"raw", "exz", "amortized", "exy_fake"}
            /\ dcEstimator \in {"n2n", "2n2", "n3n", "3n3"}
            /\ dcWeighting \in {"None", "kmeans"}) => dcPc # "AssertionError"
        /\ (\/ dcInference \notin {"raw", "exz", "amortized", "exy_fake"}
            \/ dcEstimator \notin {"n2n", "2n2", "n3n", "3n3"}) => dcPc = "AssertionError"

\* C30: for every pair the constructor accepts, forward after fit calls only
\* networks that initialize_nets created and reaches no failing assertion.
C30_ForwardUsesCreatedNets ==
    /\ dcPc \notin {"AttributeError", "ForwardAssertion"}
    /\ dcPc = "returned" => dcUsed \subseteq dcNets

\* ==== ComposeMotionEstimates (spike_psvae/motion_utils.py)

\* the displacements a member reports, the depths asked for, and the depths
\* a member can be evaluated at (a query depth moved by the displacement the
\* members before it accumulated, in either direction)
Disps == {0, 1}

QueryDepths == {0, 1}

MemberDepths == (0 - (MaxMembers - 1))..(1 + (MaxMembers - 1))

\* me.disp_at_s(t_s, depth_um) of a member: rigid and identity members are
\* constant tables
MotionTables == [MemberDepths -> Disps]

BoundedSeq(S, n) == UNION {[1..k -> S] : k \in 0..n}

restOfCompose == <<peelVars, needVars, fitVars, labels, splitVars, emVars, reassignVars,
                   bimodVars, meanVars, templateVars, decolliderVars, loglikVars, diffVars, workerVars, rgVars>>

\* disp = 0; if depth_um is None: depth_um = 0
CmCall ==
    /\ cmPc = "call"
    /\ cmDisp' = 0
    /\ cmDepth' = IF cmDepthGiven THEN cmDepth ELSE 0
    /\ cmNext' = 1
    /\ cmPc' = "loop"
    /\ UNCHANGED <<cmEstimates, cmDepthGiven, restOfCompose>>

\* disp += me.disp_at_s(t_s, depth_um + disp)
CmMember ==
    /\ cmPc = "loop"
    /\ cmNext <= Len(cmEstimates)
    /\ cmDisp' = cmDisp + cmEstimates[cmNext][cmDepth + cmDisp]
    /\ cmNext' = cmNext + 1
    /\ UNCHANGED <<cmEstimates, cmDepthGiven, cmDepth, cmPc, restOfCompose>>

CmReturn ==
    /\ cmPc = "loop"
    /\ cmNext > Len(cmEstimates)
    /\ cmPc' = "returned"
    /\ UNCHANGED <<cmEstimates, cmDepthGiven, cmDepth, cmNext, cmDisp, restOfCompose>>

InitCompose ==
    /\ PeelerAtRest
    /\ RgIdle
    /\ WorkerIdle
    /\ DiffIdle
    /\ LogLikIdle
    /\ labels = <<>>
    /\ SplitIdle
    /\ EmIdle
    /\ ReassignIdle
    /\ BimodIdle
    /\ MeanIdle
    /\ TemplatesIdle
    /\ DecolliderIdle
    /\ cmEstimates \in BoundedSeq(MotionTables, MaxMembers)
    /\ cmDepthGiven \in BOOLEAN
    /\ cmDepth \in (IF cmDepthGiven THEN QueryDepths ELSE {0})
    /\ cmPc = "call"
    /\ cmNext = 0
    /\ cmDisp = 0

NextCompose == CmCall \/ CmMember \/ CmReturn

SpecCompose == InitCompose /\ [][NextCompose]_vars

\* the sum in which member k is evaluated at correct_s of the members before
\* it: the depth minus their accumulated displacement
RECURSIVE CorrectedSum(_)
CorrectedSum(k) ==
    IF k = 0 THEN 0
    ELSE CorrectedSum(k - 1) + cmEstimates[k][cmDepth - CorrectedSum(k - 1)]

\* C22: disp_at_s returns the sum of the members' displacements, each member
\* evaluated at the depth corrected by the members before it (depth minus
\* their accumulated displacement); for two members
\* e1(t, d) + e2(t, d - e1(t, d)).
C22_ComposeAtCorrectedDepth ==
    cmPc = "returned" => cmDisp = CorrectedSum(Len(cmEstimates))

\* ==== SpikeMixtureModel.log_likelihoods and csc_insert

\* spike indices, 0-based as in the code
LlSpikeIds == 0..(LlSpikes - 1)

\* overlapping_units after the first loop (and the noise unit's + 1)
OverlappingUnits(overlap, with_noise) ==
    [i \in LlSpikeIds |->
        Cardinality({k \in DOMAIN overlap : i \in overlap[k]})
            + (IF with_noise THEN 1 ELSE 0)]

\* indptr = np.concatenate(([0], np.cumsum(overlapping_units)))
RECURSIVE CumSum(_, _)
CumSum(counts, n) == IF n = 0 THEN 0 ELSE CumSum(counts, n - 1) + counts[n - 1]

Indptr(counts) == [n \in 0..LlSpikes |-> CumSum(counts, n)]

\* csc_insert: write_offsets[inds] += 1
AdvanceHeads_never(heads, inds) == heads

AdvanceHeads(heads, inds) ==
    [i \in LlSpikeIds |-> IF i \in inds THEN heads[i] + 1 ELSE heads[i]]

\* csc_insert: csc_indices[write_offsets[ind]] = row for each ind of inds
\* (the spikes of one unit are distinct, so the prange writes do not meet)
InsertRows(indices, heads, inds, row) ==
    [s \in DOMAIN indices |->
        IF \E i \in inds : heads[i] = s THEN row ELSE indices[s]]

CountWrites(writes, heads, inds) ==
    [s \in DOMAIN writes |-> writes[s] + Cardinality({i \in inds : heads[i] = s})]

restOfLogLik == <<peelVars, needVars, fitVars, labels, splitVars, emVars, reassignVars,
                  bimodVars, meanVars, templateVars, decolliderVars, composeVars, diffVars, workerVars, rgVars>>

\* the first loop (overlap counts), the noise unit's space, the buffers,
\* indptr and the write heads
LlPrepare ==
    /\ llPc = "call"
    /\ llJ' = Len(llOverlap) - 1
    /\ llIndptr' = Indptr(OverlappingUnits(llOverlap, llWithNoise))
    /\ llWriteOffsets' = [i \in LlSpikeIds |-> llIndptr'[i]]
    /\ llCscIndices' = [s \in 0..(llIndptr'[LlSpikes] - 1) |-> -1]
    /\ llWrites' = [s \in 0..(llIndptr'[LlSpikes] - 1) |-> 0]
    /\ llPc' = "insert"
    /\ UNCHANGED <<llOverlap, llWithNoise, llDone, restOfLogLik>>

\* one round of "for j, (inds, liks) in enumerate(results)"
LlInsert ==
    /\ llPc = "insert"
    /\ llDone < Len(llOverlap)
    /\ llJ' = llDone
    /\ llDone' = llDone + 1
    /\ LET inds == llOverlap[llDone + 1]
       IN /\ llCscIndices' = InsertRows(llCscIndices, llWriteOffsets, inds, llDone)
          /\ llWrites' = CountWrites(llWrites, llWriteOffsets, inds)
          /\ llWriteOffsets' = AdvanceHeads(llWriteOffsets, inds)
    /\ UNCHANGED <<llOverlap, llWithNoise, llPc, llIndptr, restOfLogLik>>

\* after the loop: the noise row at the write heads, row j + 1, and the
\* return; j is bound only if one of the loops ran
LlNoise ==
    /\ llPc = "insert"
    /\ llDone = Len(llOverlap)
    /\ IF ~llWithNoise
       THEN /\ llPc' = "returned"
            /\ UNCHANGED <<llCscIndices, llWrites>>
       ELSE IF llJ = -1
       THEN /\ llPc' = "UnboundLocalError"
            /\ UNCHANGED <<llCscIndices, llWrites>>
       ELSE /\ llCscIndices' = InsertRows(llCscIndices, llWriteOffsets, LlSpikeIds, llJ + 1)
            /\ llWrites' = CountWrites(llWrites, llWriteOffsets, LlSpikeIds)
            /\ llPc' = "returned"
    /\ UNCHANGED <<llOverlap, llWithNoise, llJ, llDone, llIndptr, llWriteOffsets,
                   restOfLogLik>>

InitLogLik ==
    /\ PeelerAtRest
    /\ RgIdle
    /\ WorkerIdle
    /\ DiffIdle
    /\ labels = <<>>
    /\ SplitIdle
    /\ EmIdle
    /\ ReassignIdle
    /\ BimodIdle
    /\ MeanIdle
    /\ TemplatesIdle
    /\ DecolliderIdle
    /\ ComposeIdle
    /\ llOverlap \in BoundedSeq(SUBSET LlSpikeIds, LlUnits)
    /\ llWithNoise \in BOOLEAN
    /\ llPc = "call"
    /\ llJ = -1
    /\ llDone = 0
    /\ llIndptr = <<>>
    /\ llWriteOffsets = <<>>
    /\ llCscIndices = <<>>
    /\ llWrites = <<>>

NextLogLik == LlPrepare \/ LlInsert \/ LlNoise

SpecLogLik == InitLogLik /\ [][NextLogLik]_vars

\* the slots of spike i's column
Column(i) == llIndptr[i]..(llIndptr[i + 1] - 1)

\* C25: with the noise unit, log_likelihoods returns for any number of units
\* (zero included), and every spike's column has a stored entry in the last
\* row, whose index is the number of units.
C25_NoiseRowInEveryColumn ==
    /\ llPc # "UnboundLocalError"
    /\ (llPc = "returned" /\ llWithNoise) =>
          \A i \in LlSpikeIds :
              /\ Column(i) # {}
              /\ llCscIndices[llIndptr[i + 1] - 1] = Len(llOverlap)

\* C26 as stated: when log_likelihoods returns, every slot was written
\* exactly once, the entries of each column are as many as the overlap count
\* of its spike, every write head is at the start of the next column, and the
\* rows of each column strictly increase.
C26_HeadsAtNextColumn ==
    llPc = "returned" =>
        /\ \A s \in DOMAIN llWrites : llWrites[s] = 1
        /\ \A i \in LlSpikeIds :
              /\ Cardinality(Column(i)) =
                    Cardinality({k \in DOMAIN llOverlap : i \in llOverlap[k]})
                        + (IF llWithNoise THEN 1 ELSE 0)
              /\ llWriteOffsets[i] = llIndptr[i + 1]
              /\ \A s, t \in Column(i) : s < t => llCscIndices[s] < llCscIndices[t]

\* C26 amended: as above, but the write head of a spike ends at the start of
\* the next column only without the noise unit; with it, the noise entry is
\* written at the head without advancing it, so the head ends at the last
\* slot of its own column.  While the units are being inserted, no slot is
\* written twice and every head stays inside or at the end of its column.
C26_EverySlotWrittenOnce ==
    /\ llPc \in {"insert", "returned"} =>
          /\ \A s \in DOMAIN llWrites : llWrites[s] <= 1
          /\ \A i \in LlSpikeIds :
                llIndptr[i] <= llWriteOffsets[i] /\ llWriteOffsets[i] <= llIndptr[i + 1]
    /\ llPc = "returned" =>
          /\ \A s \in DOMAIN llWrites : llWrites[s] = 1
          /\ \A i \in LlSpikeIds :
                /\ Cardinality(Column(i)) =
                      Cardinality({k \in DOMAIN llOverlap : i \in llOverlap[k]})
                          + (IF llWithNoise THEN 1 ELSE 0)
                /\ llWriteOffsets[i] = llIndptr[i + 1] - (IF llWithNoise THEN 1 ELSE 0)
                /\ \A s, t \in Column(i) : s < t => llCscIndices[s] < llCscIndices[t]

\* a matrix with the noise row was returned in which one spike overlaps two
\* units and another overlaps none
C26_Witness ==
    /\ llPc = "returned"
    /\ llWithNoise
    /\ \E i \in LlSpikeIds : Cardinality(Column(i)) = 3
    /\ \E i \in LlSpikeIds : Cardinality(Column(i)) = 1

\* ==== the likelihood difference of a unit pair: get_diff_sparse,
\* ==== bimodalities_dense and qda

DiffSpikeIds == 1..DiffSpikes

\* an entry of diff: a finite number, or nan / an infinity
Finite(v) == [finite |-> TRUE, v |-> v]

NotFinite == [finite |-> FALSE, v |-> 0]

\* get_diff_sparse(log_liks, lixa, lixb, in_pair): xi - xj where both rows
\* store the spike, nan elsewhere
get_diff_sparse(lik_a, has_a, lik_b, has_b) ==
    [i \in DiffSpikeIds |->
        IF has_a[i] /\ has_b[i] THEN Finite(lik_a[i] - lik_b[i]) ELSE NotFinite]

\* qda without diff: diff = log_liks_b - log_liks_a on dense rows, in which a
\* missing likelihood is -inf
DenseDiff(lik_a, has_a, lik_b, has_b) ==
    [i \in DiffSpikeIds |->
        IF has_a[i] /\ has_b[i] THEN Finite(lik_b[i] - lik_a[i]) ELSE NotFinite]

restOfDiff == <<peelVars, needVars, fitVars, labels, splitVars, emVars, reassignVars,
                bimodVars, meanVars, templateVars, decolliderVars, composeVars, loglikVars, workerVars, rgVars>>

\* unit_pair_bimodality: qda(is_b, diff=log_lik_diff)
DfMerge ==
    /\ dfPc = "call"
    /\ dfPath = "merge"
    /\ dfDiff' = get_diff_sparse(dfLikA, dfHasA, dfLikB, dfHasB)
    /\ dfFlag' = dfInB
    /\ dfPc' = "scored"
    /\ UNCHANGED <<dfPath, dfLikA, dfLikB, dfHasA, dfHasB, dfInB, restOfDiff>>

\* bimodalities_dense: qda(labels[in_pair] == j, pair_log_liks[0], pair_log_liks[1])
DfSplit ==
    /\ dfPc = "call"
    /\ dfPath = "split"
    /\ dfDiff' = DenseDiff(dfLikA, dfHasA, dfLikB, dfHasB)
    /\ dfFlag' = dfInB
    /\ dfPc' = "scored"
    /\ UNCHANGED <<dfPath, dfLikA, dfLikB, dfHasA, dfHasB, dfInB, restOfDiff>>

InitDiff ==
    /\ PeelerAtRest
    /\ RgIdle
    /\ WorkerIdle
    /\ labels = <<>>
    /\ SplitIdle
    /\ EmIdle
    /\ ReassignIdle
    /\ BimodIdle
    /\ MeanIdle
    /\ TemplatesIdle
    /\ DecolliderIdle
    /\ ComposeIdle
    /\ LogLikIdle
    /\ dfPath \in {"merge", "split"}
    /\ dfLikA \in [DiffSpikeIds -> {0, 1}]
    /\ dfLikB \in [DiffSpikeIds -> {0, 1}]
    /\ dfHasA \in [DiffSpikeIds -> BOOLEAN]
    /\ dfHasB \in [DiffSpikeIds -> BOOLEAN]
    /\ dfInB \in [DiffSpikeIds -> BOOLEAN]
    /\ dfPc = "call"
    /\ dfDiff = <<>>
    /\ dfFlag = <<>>

NextDiff == DfMerge \/ DfSplit

SpecDiff == InitDiff /\ [][NextDiff]_vars

\* C27: on both paths the difference handed to the dip score is, for every
\* spike with both likelihoods, the likelihood under A minus the likelihood
\* under B, and the flag paired with it marks the spikes of B.
C27_DiffIsAMinusB ==
    dfPc = "scored" =>
        \A i \in DiffSpikeIds :
            /\ dfFlag[i] = dfInB[i]
            /\ dfDiff[i].finite = (dfHasA[i] /\ dfHasB[i])
            /\ dfDiff[i].finite => dfDiff[i].v = dfLikA[i] - dfLikB[i]

\* ==== the workers of peel's pool: _peeler_process_init

PoolWorkerIds == 1..PoolWorkers

\* initargs=(self, rank_queue, save_residual), as peel passes them
InitArgs == <<"peeler", "rank_queue", "save_residual">>

\* def _peeler_process_init(peeler, device, rank_queue)
InitParams == <<"peeler", "device", "rank_queue">>

\* the argument the initializer's parameter is bound to, by position
BoundTo(param) == InitArgs[CHOOSE k \in 1..Len(InitParams) : InitParams[k] = param]

\* the value has a method get: only the queue
HasGet(arg) == arg = "rank_queue"

\* ProcessContext.__init__(self, peeler, device, save_residual) is called
\* as ProcessContext(peeler, device)
ContextParams == <<"peeler", "device", "save_residual">>

ContextArgs == <<"peeler", "device">>

restOfWorker == <<peelVars, needVars, fitVars, labels, splitVars, emVars, reassignVars,
                  bimodVars, meanVars, templateVars, decolliderVars, composeVars,
                  loglikVars, diffVars, rgVars>>

\* the executor starts worker w, which calls the initializer
WkStart(w) ==
    /\ wkPc[w] = "new"
    /\ wkPc' = [wkPc EXCEPT ![w] = "started"]
    /\ UNCHANGED <<wkSaveResidual, wkDeviceCount, wkQueue, wkGrad, wkRank, wkDevice,
                   wkEval, wkCtxResidual, restOfWorker>>

\* torch.set_grad_enabled(False)
WkGradOff(w) ==
    /\ wkPc[w] = "started"
    /\ wkGrad' = [wkGrad EXCEPT ![w] = FALSE]
    /\ wkPc' = [wkPc EXCEPT ![w] = "gradoff"]
    /\ UNCHANGED <<wkSaveResidual, wkDeviceCount, wkQueue, wkRank, wkDevice, wkEval,
                   wkCtxResidual, restOfWorker>>

\* my_rank = rank_queue.get() and the rest of the initializer: the device,
\* peeler.to(device), peeler.eval(), the process context
WkRankAndContext(w) ==
    /\ wkPc[w] = "gradoff"
    /\ IF ~HasGet(BoundTo("rank_queue"))
       THEN /\ wkPc' = [wkPc EXCEPT ![w] = "AttributeError"]
            /\ UNCHANGED <<wkQueue, wkRank, wkDevice, wkEval, wkCtxResidual>>
       ELSE /\ wkQueue # <<>>
            /\ wkRank' = [wkRank EXCEPT ![w] = Head(wkQueue)]
            /\ wkQueue' = Tail(wkQueue)
            /\ wkDevice' = [wkDevice EXCEPT ![w] =
                               IF wkDeviceCount > 1 THEN Head(wkQueue) % wkDeviceCount
                               ELSE -1]
            /\ wkEval' = [wkEval EXCEPT ![w] = TRUE]
            /\ IF Len(ContextArgs) < Len(ContextParams)
               THEN /\ wkPc' = [wkPc EXCEPT ![w] = "TypeError"]
                    /\ UNCHANGED wkCtxResidual
               ELSE /\ wkPc' = [wkPc EXCEPT ![w] = "ready"]
                    /\ wkCtxResidual' =
                          [wkCtxResidual EXCEPT ![w] =
                              IF wkSaveResidual THEN "TRUE" ELSE "FALSE"]
    /\ UNCHANGED <<wkSaveResidual, wkDeviceCount, wkGrad, restOfWorker>>

InitWorker ==
    /\ PeelerAtRest
    /\ RgIdle
    /\ labels = <<>>
    /\ SplitIdle
    /\ EmIdle
    /\ ReassignIdle
    /\ BimodIdle
    /\ MeanIdle
    /\ TemplatesIdle
    /\ DecolliderIdle
    /\ ComposeIdle
    /\ LogLikIdle
    /\ DiffIdle
    /\ wkSaveResidual \in BOOLEAN
    /\ wkDeviceCount \in 1..2
    /\ wkQueue = [k \in PoolWorkerIds |-> k - 1]
    /\ wkPc = [w \in PoolWorkerIds |-> "new"]
    /\ wkGrad = [w \in PoolWorkerIds |-> TRUE]
    /\ wkRank = [w \in PoolWorkerIds |-> -1]
    /\ wkDevice = [w \in PoolWorkerIds |-> -1]
    /\ wkEval = [w \in PoolWorkerIds |-> FALSE]
    /\ wkCtxResidual = [w \in PoolWorkerIds |-> "unset"]

NextWorker == \E w \in PoolWorkerIds : WkStart(w) \/ WkGradOff(w) \/ WkRankAndContext(w)

SpecWorker == InitWorker /\ [][NextWorker]_vars

\* C28: the initializer of a worker does not fail, and a worker that has run
\* it holds one rank of the queue that no other worker holds, the device
\* index rank modulo the device count when several devices are visible, the
\* peeler in eval mode with gradient tracking disabled, and the save-residual
\* flag in its process context.
C28_WorkerInitializedOnce ==
    \A w \in PoolWorkerIds :
        /\ wkPc[w] \notin {"AttributeError", "TypeError"}
        /\ wkPc[w] = "ready" =>
              /\ wkRank[w] \in 0..(PoolWorkers - 1)
              /\ \A v \in PoolWorkerIds : (v # w /\ wkPc[v] = "ready") => wkRank[v] # wkRank[w]
              /\ wkDeviceCount > 1 => wkDevice[w] = wkRank[w] % wkDeviceCount
              /\ wkEval[w]
              /\ ~wkGrad[w]
              /\ wkCtxResidual[w] = (IF wkSaveResidual THEN "TRUE" ELSE "FALSE")

\* ==== SpikeMixtureModel.rg

RgThreadIds == 1..RgThreads

\* "with self.lock" can be entered
RgLockFree_unguarded == TRUE

RgLockFree == rgLock = -1

\* hasattr(self.storage, "rg") in thread t: storage is a threading.local
HasRg(t) == rgStorage[t] # -1

restOfRg == <<peelVars, needVars, fitVars, labels, splitVars, emVars, reassignVars,
              bimodVars, meanVars, templateVars, decolliderVars, composeVars,
              loglikVars, diffVars, workerVars>>

\* thread t reads self.rg: with a generator in its storage it returns it,
\* without one it goes for the lock
RgRead(t) ==
    /\ rgPc[t] = "out"
    /\ rgReads[t] < MaxRgReads
    /\ IF HasRg(t)
       THEN /\ rgReads' = [rgReads EXCEPT ![t] = @ + 1]
            /\ rgGot' = [rgGot EXCEPT ![t] = @ \cup {rgStorage[t]}]
            /\ UNCHANGED rgPc
       ELSE /\ rgPc' = [rgPc EXCEPT ![t] = "locking"]
            /\ UNCHANGED <<rgReads, rgGot>>
    /\ UNCHANGED <<rgStorage, rgLock, rgChildren, rgChild, restOfRg>>

\* with self.lock: enter
RgAcquire(t) ==
    /\ rgPc[t] = "locking"
    /\ RgLockFree
    /\ rgLock' = t
    /\ rgPc' = [rgPc EXCEPT ![t] = "spawn"]
    /\ UNCHANGED <<rgStorage, rgChildren, rgChild, rgReads, rgGot, restOfRg>>

\* self._rg.spawn(1): the child is made from the root's count of children ...
RgSpawn(t) ==
    /\ rgPc[t] = "spawn"
    /\ rgChild' = [rgChild EXCEPT ![t] = rgChildren]
    /\ rgPc' = [rgPc EXCEPT ![t] = "store"]
    /\ UNCHANGED <<rgStorage, rgLock, rgChildren, rgReads, rgGot, restOfRg>>

\* ... and the count advances; self.storage.rg = the child; the lock is
\* released and the read returns self.storage.rg
RgStore(t) ==
    /\ rgPc[t] = "store"
    /\ rgChildren' = rgChild[t] + 1
    /\ rgStorage' = [rgStorage EXCEPT ![t] = rgChild[t]]
    /\ rgLock' = IF rgLock = t THEN -1 ELSE rgLock
    /\ rgChild' = [rgChild EXCEPT ![t] = -1]
    /\ rgReads' = [rgReads EXCEPT ![t] = @ + 1]
    /\ rgGot' = [rgGot EXCEPT ![t] = @ \cup {rgChild[t]}]
    /\ rgPc' = [rgPc EXCEPT ![t] = "out"]
    /\ UNCHANGED restOfRg

InitRg ==
    /\ PeelerAtRest
    /\ labels = <<>>
    /\ SplitIdle
    /\ EmIdle
    /\ ReassignIdle
    /\ BimodIdle
    /\ MeanIdle
    /\ TemplatesIdle
    /\ DecolliderIdle
    /\ ComposeIdle
    /\ LogLikIdle
    /\ DiffIdle
    /\ WorkerIdle
    /\ rgStorage = [t \in RgThreadIds |-> -1]
    /\ rgLock = -1
    /\ rgChildren = 0
    /\ rgPc = [t \in RgThreadIds |-> "out"]
    /\ rgChild = [t \in RgThreadIds |-> -1]
    /\ rgReads = [t \in RgThreadIds |-> 0]
    /\ rgGot = [t \in RgThreadIds |-> {}]

NextRg == \E t \in RgThreadIds : RgRead(t) \/ RgAcquire(t) \/ RgSpawn(t) \/ RgStore(t)

SpecRg == InitRg /\ [][NextRg]_vars

\* C29: under every interleaving each thread's reads of rg return one and
\* the same generator, no generator is returned to (or stored for) two
\* threads, and at most one thread is inside spawn on the root generator.
C29_OneGeneratorPerThread ==
    /\ \A t \in RgThreadIds : Cardinality(rgGot[t]) <= 1
    /\ \A t, u \in RgThreadIds :
          t # u =>
             /\ rgGot[t] \cap rgGot[u] = {}
             /\ rgStorage[t] # -1 => rgStorage[t] # rgStorage[u]
    /\ Cardinality({t \in RgThreadIds : rgPc[t] \in {"spawn", "store"}}) <= 1

\* every thread has read rg as often as it may, and the threads hold
\* different generators
C29_Witness ==
    /\ \A t \in RgThreadIds : rgReads[t] = MaxRgReads /\ Cardinality(rgGot[t]) = 1
    /\ \A t, u \in RgThreadIds : t # u => rgGot[t] # rgGot[u]

=============================================================================
